---- MODULE Spec2Model ----
(***************************************************************************)
(* ServiceX (Dunamis IRC bot): the network manager, the connection         *)
(* supervisor (Factory) with its Twisted connector, the retry / backoff /  *)
(* rotation policy, and the protocol session (Protocol) of a connection.   *)
(*                                                                         *)
(* One Factory owns exactly one Twisted connector (reactor.connectTCP /    *)
(* connectSSL returns it), so both live in one heap record of `sup'.       *)
(* Delays are seconds scaled by DelayUnit, which keeps every value of      *)
(* 5.0 * 1.5^k below the cap an exact integer, as it is an exact double.   *)
(***************************************************************************)
EXTENDS Integers, Sequences, FiniteSets, TLC

\* -------------------------------------------------------------------------
\* Bounds of the model
\* -------------------------------------------------------------------------
MaxSupervisors == 2      \* Factory objects connect_network may allocate
MaxRetries == 2          \* consecutive failures followed per supervisor in Spec
MaxManagerRetries == 1   \* consecutive failures followed in ManagerSpec
MaxBackoffRetries == 12  \* consecutive failures followed by BackoffSpec
MaxRotations == 10       \* rotations followed by RotationSpec
MaxListLen == 3          \* longest address / port list of RotationSpec
MaxChannels == 3         \* rows of the channel table of a network (SessionSpec)
MaxNumerics == 2         \* SASL numerics a server sends within one session

\* -------------------------------------------------------------------------
\* Program constants
\* -------------------------------------------------------------------------
DelayUnit == 2 ^ 11
InitialRetryDelay == 5 * DelayUnit
MaxRetryDelay == 300 * DelayUnit
DefaultAddress == "localhost"
DefaultPort == 6667

NetIds == {1, 2}         \* network ids a caller may name; the store holds 1

VARIABLES
    db,                  \* persistent store: network id -> NetworkConfig
    networks,            \* NetworkManager.networks
    factories,           \* NetworkManager.factories: id -> Factory (index of sup)
    connectors,          \* NetworkManager.connectors: id -> connector (index of sup)
    connected_addresses, \* NetworkManager.connected_addresses: id -> <<address, port>>
    sup,                 \* heap of Factory objects, each with its connector
    result,              \* the manager call made by the latest step and the
                         \* value it returned; NoCall after a reactor event
    trail,               \* history kept by a specification: the targets of
                         \* successive rotations (RotationSpec), the nickname
                         \* collisions handled (NickSpec), the inbound chat
                         \* message of the behaviour (MessageSpec)
    channels             \* persistent store: network id -> rows of irc_channels

vars == <<db, networks, factories, connectors, connected_addresses, sup,
          result, trail, channels>>

\* -------------------------------------------------------------------------
\* Helpers on finite maps (Python dicts) and lists
\* -------------------------------------------------------------------------
EmptyMap == [x \in {} |-> 0]

Put(f, k, v) == [x \in DOMAIN f \cup {k} |-> IF x = k THEN v ELSE f[x]]

Remove(f, k) == [x \in DOMAIN f \ {k} |-> f[x]]

Min(a, b) == IF a <= b THEN a ELSE b

Contains(list, x) == \E i \in 1..Len(list) : list[i] = x

\* list.index(x): the first position holding x (1-based here)
IndexOf(list, x) ==
    CHOOSE i \in 1..Len(list) :
        list[i] = x /\ \A j \in 1..(i - 1) : list[j] # x

\* -------------------------------------------------------------------------
\* NetworkConfig
\* -------------------------------------------------------------------------
active_ports(c) == IF c.enable_ssl THEN c.ssl_ports ELSE c.ports

primary_address(c) ==
    IF c.addresses # <<>> THEN c.addresses[1] ELSE DefaultAddress

primary_port(c) ==
    IF active_ports(c) # <<>> THEN active_ports(c)[1] ELSE DefaultPort

get_next_address(c, current) ==
    IF c.addresses = <<>> THEN primary_address(c)
    ELSE IF Contains(c.addresses, current)
         THEN c.addresses[(IndexOf(c.addresses, current) % Len(c.addresses)) + 1]
         ELSE primary_address(c)

get_next_port(c, current) ==
    IF active_ports(c) = <<>> THEN primary_port(c)
    ELSE IF Contains(active_ports(c), current)
         THEN active_ports(c)[(IndexOf(active_ports(c), current)
                                  % Len(active_ports(c))) + 1]
         ELSE primary_port(c)

DefaultNickname == "Dunamis"

primary_nickname(c) ==
    IF c.nicknames # <<>> THEN c.nicknames[1] ELSE DefaultNickname

\* faulty variant: the last candidate is followed by itself
get_next_nickname_no_wrap(c, current) ==
    IF c.nicknames = <<>> THEN primary_nickname(c)
    ELSE IF Contains(c.nicknames, current)
         THEN c.nicknames[Min(IndexOf(c.nicknames, current) + 1,
                              Len(c.nicknames))]
         ELSE primary_nickname(c)

get_next_nickname(c, current) ==
    IF c.nicknames = <<>> THEN primary_nickname(c)
    ELSE IF Contains(c.nicknames, current)
         THEN c.nicknames[(IndexOf(c.nicknames, current) % Len(c.nicknames)) + 1]
         ELSE primary_nickname(c)

\* -------------------------------------------------------------------------
\* Factory (connection supervisor) and its connector
\* -------------------------------------------------------------------------
\* a line handed to sendLine: the command and what follows it
Line(cmd, arg) == [cmd |-> cmd, arg |-> arg]

\* -------------------------------------------------------------------------
\* TaskScheduler: a task is PENDING, RUNNING, PAUSED, STOPPED or COMPLETED;
\* max_runs = 0 stands for max_runs unset, `timers' for the number of the
\* task's pending timers.
\* `halted' tells what last stopped, paused or modified the task ("" for
\* nothing) and `asked' is the max_runs its schedule command was given.
\* -------------------------------------------------------------------------
\* TaskScheduler(): no task, the first id still to be handed out
TaskScheduler == [tasks |-> EmptyMap, next_id |-> 1]

\* add_task: a new id, state PENDING, and with auto_start RUNNING and armed
add_task(sch, periodic, max_runs, auto_start) ==
    [ tasks   |-> Put(sch.tasks, sch.next_id,
                      [ periodic  |-> periodic,
                        max_runs  |-> max_runs,
                        run_count |-> 0,
                        state     |-> IF auto_start THEN "RUNNING" ELSE "PENDING",
                        timers    |-> IF auto_start THEN 1 ELSE 0,
                        halted    |-> "",
                        asked     |-> 0 ]),
      next_id |-> sch.next_id + 1 ]

\* start_task: fails unless the task is PENDING or STOPPED
start_task(sch, id) ==
    IF id \in DOMAIN sch.tasks /\ sch.tasks[id].state \in {"PENDING", "STOPPED"}
    THEN [sch EXCEPT !.tasks[id].state = "RUNNING", !.tasks[id].timers = @ + 1]
    ELSE sch

\* the task has a pending timer
Armed(task) == task.timers > 0

\* a task that has not come to its end is stopped: timer cancelled, STOPPED
Stopped(task, by) ==
    IF task.state \in {"PENDING", "RUNNING", "PAUSED"}
    THEN [task EXCEPT !.state = "STOPPED", !.timers = 0, !.halted = by]
    ELSE task

\* stop_task
stop_task(sch, id) ==
    IF id \in DOMAIN sch.tasks
    THEN [sch EXCEPT !.tasks[id] = Stopped(@, "command")]
    ELSE sch

\* pause_task: periodic RUNNING tasks only
pause_task(sch, id) ==
    IF id \in DOMAIN sch.tasks /\ sch.tasks[id].periodic
          /\ sch.tasks[id].state = "RUNNING"
    THEN [sch EXCEPT !.tasks[id].state = "PAUSED", !.tasks[id].timers = 0,
                     !.tasks[id].halted = "command"]
    ELSE sch

\* faulty variant: a timer is armed whatever the state of the task
resume_task_any_state(sch, id) ==
    IF id \in DOMAIN sch.tasks
    THEN [sch EXCEPT !.tasks[id].state = "RUNNING", !.tasks[id].timers = @ + 1]
    ELSE sch

\* resume_task: PAUSED tasks only
resume_task(sch, id) ==
    IF id \in DOMAIN sch.tasks /\ sch.tasks[id].state = "PAUSED"
    THEN [sch EXCEPT !.tasks[id].state = "RUNNING", !.tasks[id].timers = @ + 1]
    ELSE sch

\* remove_task: the timer is cancelled and the record deleted
remove_task(sch, id) == [sch EXCEPT !.tasks = Remove(@, id)]

\* modify_task(id, interval=..., max_runs=...): the parameters given are
\* updated for future fires; max_runs = 0 stands for max_runs not given
modify_task(sch, id, max_runs) ==
    IF id \in DOMAIN sch.tasks
    THEN [sch EXCEPT !.tasks[id].max_runs = IF max_runs = 0 THEN @ ELSE max_runs,
                     !.tasks[id].halted = "command"]
    ELSE sch

\* stop_all_tasks: every task of the scheduler is stopped
stop_all_tasks(sch) ==
    [sch EXCEPT !.tasks = [id \in DOMAIN sch.tasks |->
                              Stopped(sch.tasks[id], "teardown")]]

\* a timer of a task fires and is spent: run_count grows by one; a periodic
\* task below its max_runs (or without one) is rearmed, any other task is
\* COMPLETED
fired(task) ==
    IF task.periodic
          /\ (task.max_runs = 0 \/ task.run_count + 1 < task.max_runs)
    THEN [task EXCEPT !.run_count = @ + 1, !.timers = (@ - 1) + 1]
    ELSE [task EXCEPT !.run_count = @ + 1, !.state = "COMPLETED",
                      !.timers = @ - 1]

\* the tasks of a scheduler in the order of their ids, up to id n
RECURSIVE TasksInOrder(_, _)
TasksInOrder(tasks, n) ==
    IF n = 0 THEN <<>>
    ELSE TasksInOrder(tasks, n - 1)
             \o (IF n \in DOMAIN tasks THEN <<tasks[n]>> ELSE <<>>)

\* faulty variant: the tasks are left running when the transport closes
connectionLost_keeping_tasks(p) == p

\* Protocol.connectionLost
connectionLost(p) == [p EXCEPT !.scheduler = stop_all_tasks(@)]

\* faulty variant: the -m option is not handed on
command_schedule_unlimited(sch, type, max_runs, auto_start) ==
    IF type = "message"
    THEN add_task(sch, TRUE, 0, auto_start)
    ELSE add_task(sch, FALSE, 0, auto_start)

\* command_schedule of the scheduler plugin: a periodic message task with
\* the -m option's max_runs, or a one-shot reminder
command_schedule(sch, type, max_runs, auto_start) ==
    IF type = "message"
    THEN add_task(sch, TRUE, max_runs, auto_start)
    ELSE add_task(sch, FALSE, 0, auto_start)

\* Factory.protocol = None
NoProtocol ==
    [ exists             |-> FALSE,
      signedOn           |-> FALSE,
      sasl_authenticated |-> FALSE,
      joined_channels    |-> <<>>,
      sent               |-> <<>>,
      received           |-> <<>>,
      nickname           |-> "",
      attempted          |-> "",
      events             |-> <<>>,
      dispatched         |-> <<>>,
      scheduler          |-> TaskScheduler ]

\* Protocol.__init__ (called by Factory.buildProtocol); `sent' are the lines
\* written to the transport so far, `received' the capability, AUTHENTICATE
\* and SASL numeric lines handled,
\* `events' the membership events (joined, left, kicked) handled,
\* `dispatched' the calls made to plugin_manager.execute_command,
\* `scheduler' the session's own TaskScheduler
NewProtocol ==
    [ exists             |-> TRUE,
      signedOn           |-> FALSE,
      sasl_authenticated |-> FALSE,
      joined_channels    |-> <<>>,
      sent               |-> <<>>,
      received           |-> <<>>,
      nickname           |-> "",
      attempted          |-> "",
      events             |-> <<>>,
      dispatched         |-> <<>>,
      scheduler          |-> TaskScheduler ]

\* Factory.buildProtocol: the new session is given the primary nickname,
\* which IRCClient.register then requests
BuiltProtocol(c) ==
    [NewProtocol EXCEPT !.nickname = primary_nickname(c),
                        !.attempted = primary_nickname(c)]

\* IRCClient.setNick: the nickname is requested from the server
setNick(p, name) ==
    [p EXCEPT !.attempted = name, !.sent = Append(@, Line("NICK", name))]

\* Protocol.alterCollidedNick, as IRCClient.irc_ERR_NICKNAMEINUSE uses it:
\* the nickname it returns is requested next
alterCollidedNick(p, c) == setNick(p, get_next_nickname(c, p.attempted))

\* IRCClient.register with no server password: NICK, then USER
RegistrationLines == <<Line("NICK", ""), Line("USER", "")>>

\* the capability request of Protocol.connectionMade
CapabilityLines(c) ==
    IF c.auth_mechanism = 1 /\ c.sasl_mechanism \in {1, 2}
    THEN <<Line("CAP REQ", ":sasl")>>
    ELSE <<>>

\* faulty variant: registration is begun before the capability request
ConnectionMadeRegisterFirst(p, c) ==
    [p EXCEPT !.sent = p.sent \o RegistrationLines \o CapabilityLines(c)]

\* Protocol.connectionMade
ConnectionMade(p, c) ==
    [p EXCEPT !.sent = p.sent \o CapabilityLines(c) \o RegistrationLines]

\* faulty variant: the failure numeric marks the session authenticated
irc_904_authenticating(p) ==
    [p EXCEPT !.sasl_authenticated = TRUE,
              !.sent = Append(p.sent, Line("CAP END", "")),
              !.received = Append(p.received, "904")]

\* Protocol.irc_903
irc_903(p) ==
    [p EXCEPT !.sasl_authenticated = TRUE,
              !.sent = Append(p.sent, Line("CAP END", "")),
              !.received = Append(p.received, "903")]

\* Protocol.irc_904
irc_904(p) ==
    [p EXCEPT !.sent = Append(p.sent, Line("CAP END", "")),
              !.received = Append(p.received, "904")]

\* the line irc_AUTHENTICATE sends for PLAIN: base64 of
\* auth_username NUL auth_username NUL auth_password
PlainCredentials == "base64(auth_username 0 auth_username 0 auth_password)"

\* what `received' keeps of a CAP line
CapReceived(params) ==
    IF ~Contains(params[3], "sasl") THEN "CAP"
    ELSE IF params[2] = "ACK" THEN "CAP ACK sasl"
    ELSE "CAP NAK sasl"

\* Protocol.irc_CAP(prefix, params), params = [client, subcommand,
\* capabilities]: the capabilities are a list of names here, and
\* 'sasl' in params[2] is membership in it
irc_CAP(p, c, params) ==
    LET handled == [p EXCEPT !.received = Append(@, CapReceived(params))]
    IN IF params[2] = "ACK" /\ Contains(params[3], "sasl")
       THEN IF c.sasl_mechanism = 1
            THEN [handled EXCEPT
                     !.sent = Append(@, Line("AUTHENTICATE", "PLAIN"))]
            ELSE IF c.sasl_mechanism = 2
            THEN [handled EXCEPT
                     !.sent = Append(@, Line("AUTHENTICATE", "EXTERNAL"))]
            ELSE handled
       ELSE handled

\* Protocol.irc_AUTHENTICATE(prefix, params)
irc_AUTHENTICATE(p, c, params) ==
    LET handled == [p EXCEPT !.received = Append(@, "AUTHENTICATE +")]
    IN IF params[1] = "+" /\ c.sasl_mechanism = 1
       THEN [handled EXCEPT
                !.sent = Append(@, Line("AUTHENTICATE", PlainCredentials))]
       ELSE handled

\* IRCClient.handleCommand: a line of the server goes to the irc_COMMAND
\* method of the session
handleCommand(p, c, command, params) ==
    IF command = "CAP" THEN irc_CAP(p, c, params)
    ELSE IF command = "AUTHENTICATE" THEN irc_AUTHENTICATE(p, c, params)
    ELSE IF command = "903" THEN irc_903(p)
    ELSE IF command = "904" THEN irc_904(p)
    ELSE p

\* Python values handed to join_channel: an int never equals a str
IntValue(i) == [int |-> i]

StrValue(s) == [str |-> s]

\* Protocol.join_channel(channel_id, save_to_db=False): the row is looked up
\* by id, and nothing is sent for a channel the session is already in
join_channel(p, rows, channel_id) ==
    IF \A i \in 1..Len(rows) : IntValue(rows[i].id) # channel_id THEN <<>>
    ELSE LET row == rows[CHOOSE i \in 1..Len(rows) :
                            /\ IntValue(rows[i].id) = channel_id
                            /\ \A j \in 1..(i - 1) :
                                   IntValue(rows[j].id) # channel_id]
         IN IF Contains(p.joined_channels, row.name) THEN <<>>
            ELSE <<Line("JOIN", row.name)>>

\* faulty variant: every configured channel is joined
RECURSIVE AutoJoinLinesAll(_, _, _)
AutoJoinLinesAll(p, rows, k) ==
    IF k > Len(rows) THEN <<>>
    ELSE join_channel(p, rows, IntValue(rows[k].id))
             \o AutoJoinLinesAll(p, rows, k + 1)

\* the loop of Protocol.signedOn over db.get_channels, from row k on
RECURSIVE AutoJoinLines(_, _, _)
AutoJoinLines(p, rows, k) ==
    IF k > Len(rows) THEN <<>>
    ELSE (IF rows[k].auto_join THEN join_channel(p, rows, IntValue(rows[k].id))
          ELSE <<>>)
             \o AutoJoinLines(p, rows, k + 1)

\* Protocol.signedOn
signedOn(p, c, rows) ==
    [p EXCEPT !.signedOn = TRUE,
              !.sent = p.sent
                  \o (IF c.auth_mechanism = 2
                      THEN <<Line("PRIVMSG", "NickServ :IDENTIFY")>> ELSE <<>>)
                  \o (IF c.oper_auth THEN <<Line("OPER", "")>> ELSE <<>>)
                  \o AutoJoinLines(p, rows, 1)]

MembershipEvent(kind, channel) == [kind |-> kind, channel |-> channel]

\* Protocol.joined
joined(p, channel) ==
    [p EXCEPT !.joined_channels =
                  IF Contains(@, channel) THEN @ ELSE Append(@, channel),
              !.events = Append(@, MembershipEvent("joined", channel))]

\* list.remove(x): the first occurrence is taken out
RemoveFirst(list, x) ==
    SubSeq(list, 1, IndexOf(list, x) - 1)
        \o SubSeq(list, IndexOf(list, x) + 1, Len(list))

\* Protocol.left
left(p, channel) ==
    [p EXCEPT !.joined_channels =
                  IF Contains(@, channel) THEN RemoveFirst(@, channel) ELSE @,
              !.events = Append(@, MembershipEvent("left", channel))]

\* Protocol.kickedFrom: the first row of the channel's name flagged
\* auto_rejoin has join_channel called with the channel's name
kickedFrom(p, rows, channel) ==
    [p EXCEPT !.sent = @ \o
                  (IF \E i \in 1..Len(rows) :
                         rows[i].name = channel /\ rows[i].auto_rejoin
                   THEN join_channel(p, rows, StrValue(channel))
                   ELSE <<>>),
              !.events = Append(@, MembershipEvent("kicked", channel))]

\* -------------------------------------------------------------------------
\* Inbound chat messages.  Senders, texts and prefixes are sequences of
\* one-character strings, so that split, strip, startswith, slicing and the
\* tokenizer are computed on the characters.
\* -------------------------------------------------------------------------
Count(text, ch) == Cardinality({ i \in 1..Len(text) : text[i] = ch })

\* the parts of text.split(ch) when ch occurs exactly once
Before(text, ch) == SubSeq(text, 1, IndexOf(text, ch) - 1)

After(text, ch) == SubSeq(text, IndexOf(text, ch) + 1, Len(text))

\* "nickname, user_info = user.split('!')" and "ident, hostname =
\* user_info.split('@')" raise no ValueError
SenderParses(user) ==
    /\ Count(user, "!") = 1
    /\ Count(After(user, "!"), "@") = 1

\* str.strip()
RECURSIVE Strip(_)
Strip(text) ==
    IF text = <<>> THEN <<>>
    ELSE IF Head(text) = " " THEN Strip(Tail(text))
    ELSE IF text[Len(text)] = " " THEN Strip(SubSeq(text, 1, Len(text) - 1))
    ELSE text

\* str.startswith(prefix)
StartsWith(text, prefix) ==
    /\ Len(prefix) <= Len(text)
    /\ SubSeq(text, 1, Len(prefix)) = prefix

\* the outcome of shlex.split: the tokens, or the ValueError raised
Tokens(tokens) == [error |-> "none", tokens |-> tokens]

TokenError(message) == [error |-> message, tokens |-> <<>>]

\* shlex.shlex(posix=True, whitespace_split=True).read_token, character by
\* character from position i: `state' is " " between tokens, "a" inside a
\* word, the quote character inside a quoted section and "\\" after an
\* escape character; `quoted' tells that the token has had a quoted section
RECURSIVE Scan(_, _, _, _, _, _, _)
Scan(text, i, state, escapedstate, token, quoted, tokens) ==
    IF i > Len(text)
    THEN CASE state = " " -> Tokens(tokens)
           [] state = "a" ->
                  Tokens(IF token # <<>> \/ quoted
                         THEN Append(tokens, token) ELSE tokens)
           [] state \in {"\"", "'"} -> TokenError("No closing quotation")
           [] OTHER -> TokenError("No escaped character")
    ELSE LET ch == text[i]
         IN CASE state = " " ->
                  IF ch = " "
                  THEN Scan(text, i + 1, " ", escapedstate, <<>>, FALSE, tokens)
                  ELSE IF ch = "\\"
                  THEN Scan(text, i + 1, ch, "a", <<>>, FALSE, tokens)
                  ELSE IF ch \in {"\"", "'"}
                  THEN Scan(text, i + 1, ch, escapedstate, <<>>, FALSE, tokens)
                  ELSE Scan(text, i + 1, "a", escapedstate, <<ch>>, FALSE, tokens)
              [] state \in {"\"", "'"} ->
                  IF ch = state
                  THEN Scan(text, i + 1, "a", escapedstate, token, TRUE, tokens)
                  ELSE IF ch = "\\" /\ state = "\""
                  THEN Scan(text, i + 1, ch, state, token, TRUE, tokens)
                  ELSE Scan(text, i + 1, state, escapedstate,
                            Append(token, ch), TRUE, tokens)
              [] state = "\\" ->
                  Scan(text, i + 1, escapedstate, escapedstate,
                       (IF escapedstate \in {"\"", "'"}
                           /\ ch # state /\ ch # escapedstate
                        THEN Append(token, state) ELSE token) \o <<ch>>,
                       quoted, tokens)
              [] OTHER ->
                  IF ch = " "
                  THEN Scan(text, i + 1, " ", escapedstate, <<>>, FALSE,
                            IF token # <<>> \/ quoted
                            THEN Append(tokens, token) ELSE tokens)
                  ELSE IF ch \in {"\"", "'"}
                  THEN Scan(text, i + 1, ch, escapedstate, token, quoted, tokens)
                  ELSE IF ch = "\\"
                  THEN Scan(text, i + 1, ch, "a", token, quoted, tokens)
                  ELSE Scan(text, i + 1, "a", escapedstate,
                            Append(token, ch), quoted, tokens)

\* shlex.split(message)
shlex_split(text) == Scan(text, 1, " ", " ", <<>>, FALSE, <<>>)

\* a nickname taken from a sender, as a Python value
CharsValue(text) == [chars |-> text]

\* faulty variant: the reply goes to the invoker instead of the target
send_message_private(p, target, message, prefix_nick) ==
    [p EXCEPT !.sent = Append(@, [cmd |-> "PRIVMSG", target |-> prefix_nick,
                                  prefix_nick |-> prefix_nick,
                                  text |-> message])]

\* Protocol.send_message(target, message, prefix_nick): one PRIVMSG to
\* `target' whose text is "prefix_nick: message"
send_message(p, target, message, prefix_nick) ==
    [p EXCEPT !.sent = Append(@, [cmd |-> "PRIVMSG", target |-> target,
                                  prefix_nick |-> prefix_nick,
                                  text |-> message])]

\* the command names with a handler in the plugin manager's registry
RegisteredCommands == {<<"p">>, <<"p", "i", "n", "g">>}

\* PluginManager.execute_command: whether a handler existed and ran
execute_command(command) == command \in RegisteredCommands

\* faulty variant: the prefix is cut off private messages as well
handle_command_strip_always(p, target, nickname, message, is_pm, prefix) ==
    LET split == shlex_split(SubSeq(message, Len(prefix) + 1, Len(message)))
        call == [command |-> split.tokens[1], args |-> Tail(split.tokens),
                 target |-> target, nickname |-> nickname]
        called == [p EXCEPT !.dispatched = Append(@, call)]
    IN IF split.error # "none"
       THEN IF split.error = "No closing quotation"
            THEN send_message(p, target, "Missing closing quotation mark",
                              nickname)
            ELSE p
       ELSE IF split.tokens = <<>> THEN p
       ELSE IF execute_command(split.tokens[1]) THEN called
       ELSE send_message(called, target, "Command not found", nickname)

\* Protocol._handle_command
handle_command(p, target, nickname, message, is_pm, prefix) ==
    LET split == shlex_split(IF is_pm THEN message
                             ELSE SubSeq(message, Len(prefix) + 1, Len(message)))
        call == [command |-> split.tokens[1], args |-> Tail(split.tokens),
                 target |-> target, nickname |-> nickname]
        called == [p EXCEPT !.dispatched = Append(@, call)]
    IN IF split.error # "none"
       THEN IF split.error = "No closing quotation"
            THEN send_message(p, target, "Missing closing quotation mark",
                              nickname)
            ELSE p
       ELSE IF split.tokens = <<>> THEN p
       ELSE IF execute_command(split.tokens[1]) THEN called
       ELSE send_message(called, target, "Command not found", nickname)

\* the prefix loop of Protocol.privmsg: the first row of the channel's name
\* with a command prefix set overrides the network's prefix
resolved_prefix(c, rows, channel) ==
    LET own == { i \in 1..Len(rows) :
                   rows[i].name = channel /\ rows[i].command_prefix # <<>> }
    IN IF own = {} THEN c.command_prefix
       ELSE rows[CHOOSE i \in own : \A j \in own : i <= j].command_prefix

\* faulty variant: only the '!' of the sender is looked for
privmsg_any_user_part(p, c, rows, user, channel, message) ==
    IF Count(user, "!") # 1 THEN p
    ELSE IF Strip(message) = <<>> THEN p
    ELSE LET nickname == CharsValue(Before(user, "!"))
             is_pm == channel = p.nickname
             target == IF is_pm THEN nickname ELSE StrValue(channel)
             prefix == IF is_pm THEN c.command_prefix
                       ELSE resolved_prefix(c, rows, channel)
         IN IF is_pm \/ StartsWith(Strip(message), prefix)
            THEN handle_command(p, target, nickname, Strip(message),
                                is_pm, prefix)
            ELSE p

\* Protocol.privmsg
privmsg(p, c, rows, user, channel, message) ==
    IF ~SenderParses(user) THEN p
    ELSE IF Strip(message) = <<>> THEN p
    ELSE LET nickname == CharsValue(Before(user, "!"))
             is_pm == channel = p.nickname
             target == IF is_pm THEN nickname ELSE StrValue(channel)
             prefix == IF is_pm THEN c.command_prefix
                       ELSE resolved_prefix(c, rows, channel)
         IN IF is_pm \/ StartsWith(Strip(message), prefix)
            THEN handle_command(p, target, nickname, Strip(message),
                                is_pm, prefix)
            ELSE p

\* db.get_channels(network_id)
get_channels(n) == IF n \in DOMAIN channels THEN channels[n] ELSE <<>>

NoTimer == [pending |-> FALSE, delay |-> 0, cause |-> "none"]

RetryTimer(delay, cause) == [pending |-> TRUE, delay |-> delay, cause |-> cause]

\* Factory.__init__, not yet handed to the reactor (connector state "none")
NewFactory(n, c) ==
    [ net              |-> n,
      config           |-> c,
      protocol         |-> NoProtocol,
      should_reconnect |-> TRUE,
      current_address  |-> primary_address(c),
      current_port     |-> primary_port(c),
      retry_delay      |-> InitialRetryDelay,
      retry_count      |-> 0,
      state            |-> "none",
      host             |-> "",
      port             |-> 0,
      closing          |-> FALSE,
      timer            |-> NoTimer,
      orphans          |-> <<>> ]

\* reactor.connectTCP / connectSSL: a connector bound to (address, port) for
\* good, started at once
StartConnector(f, address, port) ==
    [f EXCEPT !.state = "connecting", !.host = address, !.port = port]

ReconnectPermitted(f) == f.should_reconnect /\ f.config.auto_reconnect

\* faulty variant: the rotation never leaves the current address
RotatedTargetPortOnly(f) ==
    <<f.current_address, get_next_port(f.config, f.current_port)>>

\* Factory._rotate_connection_target: the new (current_address, current_port)
RotatedTarget(f) ==
    LET next_port == get_next_port(f.config, f.current_port)
    IN IF next_port = primary_port(f.config) \/ next_port = f.current_port
       THEN <<get_next_address(f.config, f.current_address),
              primary_port(f.config)>>
       ELSE <<f.current_address, next_port>>

\* faulty variant: the backoff without its cap
NextRetryDelayUncapped(d) == (d * 3) \div 2

\* retry_delay = min(retry_delay * 1.5, max_retry_delay)
NextRetryDelay(d) == Min((d * 3) \div 2, MaxRetryDelay)

\* the delay clientConnectionFailed hands to reactor.callLater
FailedTimerDelay(f) == NextRetryDelay(f.retry_delay)

\* Factory.clientConnectionFailed on a connector that is now disconnected
FailedFactory(f) ==
    IF ReconnectPermitted(f)
    THEN [f EXCEPT !.state = "disconnected",
                   !.current_address = RotatedTarget(f)[1],
                   !.current_port = RotatedTarget(f)[2],
                   !.retry_count = f.retry_count + 1,
                   !.retry_delay = NextRetryDelay(f.retry_delay),
                   !.timer = RetryTimer(FailedTimerDelay(f), "failed")]
    ELSE [f EXCEPT !.state = "disconnected"]

\* the write of _rotate_connection_target into the manager's table
FailedAddresses(f, table) ==
    IF ReconnectPermitted(f)
    THEN Put(table, f.net, RotatedTarget(f))
    ELSE table

\* the retry counter is followed up to cap
MayFail(f, cap) == ReconnectPermitted(f) => f.retry_count < cap

\* faulty variant: the loss of an established connection keeps the grown delay
LostRetryDelayKept(f) == f.retry_delay

\* retry_delay after the loss of a connection for which a session was built
LostRetryDelay(f) == InitialRetryDelay

\* faulty variant: the loss of an established connection is handled as a failure
LostFactoryAsFailure(f) ==
    IF ReconnectPermitted(f) /\ f.protocol.exists
    THEN [FailedFactory(f) EXCEPT !.closing = FALSE]
    ELSE [f EXCEPT !.state = "disconnected", !.closing = FALSE]

\* Factory.clientConnectionLost; the branch without a session raises
\* AttributeError (self._rotate) before anything is scheduled
LostFactory(f) ==
    IF ReconnectPermitted(f) /\ f.protocol.exists
    THEN [f EXCEPT !.state = "disconnected",
                   !.closing = FALSE,
                   !.retry_count = 0,
                   !.retry_delay = LostRetryDelay(f),
                   !.timer = RetryTimer(LostRetryDelay(f), "lost")]
    ELSE [f EXCEPT !.state = "disconnected", !.closing = FALSE]

\* connector.disconnect(): stopConnecting fails the attempt at once,
\* loseConnection closes an established transport later, and a connector
\* that is disconnected (idle or waiting for its retry timer) is left alone
DisconnectedConnector(f) ==
    IF f.state = "connecting" THEN FailedFactory(f)
    ELSE IF f.state = "connected" THEN [f EXCEPT !.closing = TRUE]
    ELSE f

\* the snapshot returned by get_network_status(network_id); a key the code
\* leaves out of the dict is a has_... flag that is FALSE here
NoStatus ==
    [ connected          |-> FALSE,
      has_address        |-> FALSE,
      connected_address  |-> <<>>,
      has_session        |-> FALSE,
      channels           |-> <<>>,
      sasl_authenticated |-> FALSE ]

\* a manager call and what it returned: `reconnect' is the flag handed to
\* disconnect_network, `status' the dict returned by get_network_status
Result(op, n, ok) ==
    [op |-> op, id |-> n, ok |-> ok, reconnect |-> FALSE, status |-> NoStatus]

NoCall == Result("none", 0, TRUE)

\* -------------------------------------------------------------------------
\* Configurations
\* -------------------------------------------------------------------------
Config(addresses, ports, ssl_ports, ssl, auto_connect, auto_reconnect) ==
    [ addresses      |-> addresses,
      ports          |-> ports,
      ssl_ports      |-> ssl_ports,
      enable_ssl     |-> ssl,
      auto_connect   |-> auto_connect,
      auto_reconnect |-> auto_reconnect,
      auth_mechanism |-> 0,
      sasl_mechanism |-> 0,
      oper_auth      |-> FALSE,
      rpl_welcome    |-> "",
      nicknames      |-> <<DefaultNickname>>,
      command_prefix |-> <<"!">> ]

\* address lists of the stored network: an address column left empty (as
\* 'network modify ID -a ""' leaves it) is read back by get_networks as []
AddressChoices == {<<>>, <<"a", "b">>}

InitialConfigs ==
    { Config(a, <<1, 2>>, <<3>>, FALSE, ac, ar) :
        a \in AddressChoices, ac \in BOOLEAN, ar \in BOOLEAN }

\* -------------------------------------------------------------------------
\* Initial state: NetworkManager.__init__ over a store that holds network 1
\* -------------------------------------------------------------------------
Init ==
    /\ \E c \in InitialConfigs : db = [n \in {1} |-> c]
    /\ networks = EmptyMap
    /\ factories = EmptyMap
    /\ connectors = EmptyMap
    /\ connected_addresses = EmptyMap
    /\ sup = <<>>
    /\ result = NoCall
    /\ trail = <<>>
    /\ channels = [n \in {1} |-> <<>>]

\* -------------------------------------------------------------------------
\* NetworkManager operations
\* -------------------------------------------------------------------------
\* load_networks: every config of the store is written over the in-memory one
LoadedNetworks ==
    [n \in DOMAIN networks \cup DOMAIN db |->
        IF n \in DOMAIN db THEN db[n] ELSE networks[n]]

LoadNetworks ==
    /\ networks' = LoadedNetworks
    /\ result' = Result("load_networks", 0, TRUE)
    /\ UNCHANGED <<db, factories, connectors, connected_addresses, sup, trail, channels>>

\* 'network modify ID [-a a,b] --auto-connect AC --auto-reconnect AR':
\* db.update_network, then load_networks
ModifyNetwork(n) ==
    /\ n \in DOMAIN db
    /\ \E a \in {db[n].addresses, <<"a", "b">>},
          ac \in BOOLEAN, ar \in BOOLEAN :
          db' = [db EXCEPT ![n] = [@ EXCEPT !.addresses = a,
                                            !.auto_connect = ac,
                                            !.auto_reconnect = ar]]
    /\ networks' = [m \in DOMAIN networks \cup DOMAIN db' |->
                       IF m \in DOMAIN db' THEN db'[m] ELSE networks[m]]
    /\ result' = Result("load_networks", 0, TRUE)
    /\ UNCHANGED <<factories, connectors, connected_addresses, sup, trail, channels>>

\* faulty variant: a registered connector does not refuse the call
ConnectRefusedUnlessRegistered(n) ==
    \/ n \notin DOMAIN networks
    \/ ~networks[n].auto_connect

\* connect_network(network_id) with the default address_idx = port_idx = 0,
\* which is how every caller calls it
ConnectRefused(n) ==
    \/ n \notin DOMAIN networks
    \/ n \in DOMAIN connectors
    \/ ~networks[n].auto_connect

\* indexing an empty list raises IndexError inside the try block
ConnectRaises(c) == c.addresses = <<>> \/ active_ports(c) = <<>>

ConnectStep(op, n) ==
    IF ConnectRefused(n)
    THEN /\ result' = Result(op, n, FALSE)
         /\ UNCHANGED <<db, networks, factories, connectors,
                        connected_addresses, sup, trail, channels>>
    ELSE /\ Len(sup) < MaxSupervisors
         /\ LET c == networks[n]
                s == Len(sup) + 1
                f == NewFactory(n, c)
            IN /\ factories' = Put(factories, n, s)
               /\ IF ConnectRaises(c)
                  THEN /\ sup' = Append(sup, f)
                       /\ result' = Result(op, n, FALSE)
                       /\ UNCHANGED <<connectors, connected_addresses>>
                  ELSE /\ sup' = Append(sup,
                                   StartConnector(f, c.addresses[1],
                                                  active_ports(c)[1]))
                       /\ connectors' = Put(connectors, n, s)
                       /\ connected_addresses' =
                              Put(connected_addresses, n,
                                  <<c.addresses[1], active_ports(c)[1]>>)
                       /\ result' = Result(op, n, TRUE)
         /\ UNCHANGED <<db, networks, trail, channels>>

ConnectNetwork(n) == ConnectStep("connect_network", n)

\* disconnect_network(network_id, reconnect)
MarkedNoReconnect(n, reconnect, heap) ==
    IF ~reconnect /\ ~networks[n].auto_reconnect /\ n \in DOMAIN factories
    THEN [heap EXCEPT ![factories[n]].should_reconnect = FALSE]
    ELSE heap

\* faulty variant: the supervisor stays registered
DisconnectedFactoriesKept(n) == factories

\* del self.factories[network_id]
DisconnectedFactories(n) == Remove(factories, n)

DisconnectNetwork(n, reconnect, cap) ==
    IF n \notin DOMAIN connectors \/ n \notin DOMAIN networks
    THEN /\ result' = [Result("disconnect_network", n, FALSE)
                          EXCEPT !.reconnect = reconnect]
         /\ UNCHANGED <<db, networks, factories, connectors,
                        connected_addresses, sup, trail, channels>>
    ELSE LET s == connectors[n]
             marked == MarkedNoReconnect(n, reconnect, sup)
             f == marked[s]
             addrs == IF f.state = "connecting"
                      THEN FailedAddresses(f, connected_addresses)
                      ELSE connected_addresses
         IN /\ f.state = "connecting" => MayFail(f, cap)
            /\ sup' = [marked EXCEPT ![s] = DisconnectedConnector(f)]
            /\ IF reconnect
               THEN /\ connected_addresses' = addrs
                    /\ UNCHANGED <<connectors, factories>>
               ELSE /\ connectors' = Remove(connectors, n)
                    /\ factories' = DisconnectedFactories(n)
                    /\ connected_addresses' = Remove(addrs, n)
            /\ result' = [Result("disconnect_network", n, TRUE)
                             EXCEPT !.reconnect = reconnect]
            /\ UNCHANGED <<db, networks, trail, channels>>

\* reconnect_network(network_id): on a registered network disconnect_network
\* (reconnect=True) runs first and leaves the connector registered, so the
\* connect_network that follows returns False at its 'already connected' test;
\* on an unregistered network only connect_network runs
ReconnectNetwork(n, cap) ==
    IF n \notin DOMAIN connectors
    THEN ConnectStep("reconnect_network", n)
    ELSE IF n \notin DOMAIN networks
    THEN /\ result' = Result("reconnect_network", n, FALSE)
         /\ UNCHANGED <<db, networks, factories, connectors,
                        connected_addresses, sup, trail, channels>>
    ELSE LET s == connectors[n]
             f == sup[s]
         IN /\ f.state = "connecting" => MayFail(f, cap)
            /\ sup' = [sup EXCEPT ![s] = DisconnectedConnector(f)]
            /\ connected_addresses' =
                   IF f.state = "connecting"
                   THEN FailedAddresses(f, connected_addresses)
                   ELSE connected_addresses
            /\ result' = Result("reconnect_network", n, FALSE)
            /\ UNCHANGED <<db, networks, factories, connectors, trail,
                           channels>>

\* get_network_status(network_id)
get_network_status(n) ==
    LET is_connected == n \in DOMAIN connectors
        has_address == is_connected /\ n \in DOMAIN connected_addresses
        has_session == /\ is_connected
                       /\ n \in DOMAIN factories
                       /\ sup[factories[n]].protocol.exists
    IN [ connected          |-> is_connected,
         has_address        |-> has_address,
         connected_address  |-> IF has_address THEN connected_addresses[n]
                                ELSE <<>>,
         has_session        |-> has_session,
         channels           |-> IF has_session
                                THEN sup[factories[n]].protocol.joined_channels
                                ELSE <<>>,
         sasl_authenticated |-> IF has_session
                                THEN sup[factories[n]].protocol.sasl_authenticated
                                ELSE FALSE ]

\* a call of get_network_status: None for an unknown id
GetNetworkStatus(n) ==
    /\ result' = [Result("get_network_status", n, n \in DOMAIN networks)
                      EXCEPT !.status = IF n \in DOMAIN networks
                                        THEN get_network_status(n)
                                        ELSE NoStatus]
    /\ UNCHANGED <<db, networks, factories, connectors, connected_addresses,
                   sup, trail, channels>>

\* faulty variant: a config missing from the store is dropped from memory
ReloadedNetworksDropping(n) ==
    IF n \in DOMAIN db THEN Put(networks, n, db[n]) ELSE Remove(networks, n)

\* reload_network_config(network_id): self.networks afterwards
ReloadedNetworks(n) ==
    IF n \in DOMAIN db THEN Put(networks, n, db[n]) ELSE networks

ReloadNetworkConfig(n) ==
    /\ networks' = ReloadedNetworks(n)
    /\ result' = Result("reload_network_config", n, n \in DOMAIN db)
    /\ UNCHANGED <<db, factories, connectors, connected_addresses, sup, trail,
                   channels>>

\* 'network remove ID' (handle_remove): refused while the id is registered in
\* connectors; otherwise db.remove_network (the network's channel rows go
\* with it) and, if a row was deleted, load_networks
RemoveNetwork(n) ==
    IF n \in DOMAIN connectors \/ n \notin DOMAIN db
    THEN /\ result' = Result("remove_network", n, FALSE)
         /\ UNCHANGED <<db, networks, factories, connectors,
                        connected_addresses, sup, trail, channels>>
    ELSE /\ db' = Remove(db, n)
         /\ channels' = Remove(channels, n)
         /\ networks' = [m \in DOMAIN networks \cup DOMAIN db' |->
                            IF m \in DOMAIN db' THEN db'[m] ELSE networks[m]]
         /\ result' = Result("load_networks", 0, TRUE)
         /\ UNCHANGED <<factories, connectors, connected_addresses, sup, trail>>

\* -------------------------------------------------------------------------
\* Transport events delivered by the reactor
\* -------------------------------------------------------------------------
\* the transport is established: connector.buildProtocol, Factory.buildProtocol,
\* then Protocol.connectionMade on the new session; the tasks of the session
\* it replaces stay with the reactor as `orphans'
BuildProtocol(s) ==
    /\ sup[s].state = "connecting"
    /\ sup' = [sup EXCEPT ![s].state = "connected",
                          ![s].protocol =
                              ConnectionMade(BuiltProtocol(sup[s].config),
                                             sup[s].config),
                          ![s].orphans = @ \o
                              TasksInOrder(sup[s].protocol.scheduler.tasks,
                                           sup[s].protocol.scheduler.next_id - 1)]
    /\ result' = NoCall
    /\ UNCHANGED <<db, networks, factories, connectors, connected_addresses,
                   trail, channels>>

\* Protocol.signedOn: registration completed on the live session
SignedOn(s) ==
    /\ sup[s].state = "connected"
    /\ sup[s].protocol.exists
    /\ ~sup[s].protocol.signedOn
    /\ sup' = [sup EXCEPT ![s].protocol =
                   signedOn(sup[s].protocol, sup[s].config,
                            get_channels(sup[s].net))]
    /\ result' = NoCall
    /\ UNCHANGED <<db, networks, factories, connectors, connected_addresses,
                   trail, channels>>

\* Protocol.irc_001: db.update_network_rpl writes the welcome text into the
\* store's row of the network (no row, nothing written); the manager's
\* in-memory config is not touched
Irc001(s) ==
    /\ sup[s].state = "connected"
    /\ db' = IF sup[s].net \in DOMAIN db
             THEN [db EXCEPT ![sup[s].net].rpl_welcome = "Welcome"]
             ELSE db
    /\ result' = NoCall
    /\ UNCHANGED <<networks, factories, connectors, connected_addresses, sup,
                   trail, channels>>

\* Protocol.irc_903 on the live session
Irc903(s) ==
    /\ sup[s].state = "connected"
    /\ Len(sup[s].protocol.received) < MaxNumerics
    /\ sup' = [sup EXCEPT ![s].protocol = irc_903(sup[s].protocol)]
    /\ result' = NoCall
    /\ UNCHANGED <<db, networks, factories, connectors, connected_addresses,
                   trail, channels>>

\* Protocol.irc_904 on the live session
Irc904(s) ==
    /\ sup[s].state = "connected"
    /\ Len(sup[s].protocol.received) < MaxNumerics
    /\ sup' = [sup EXCEPT ![s].protocol = irc_904(sup[s].protocol)]
    /\ result' = NoCall
    /\ UNCHANGED <<db, networks, factories, connectors, connected_addresses,
                   trail, channels>>

\* Protocol.joined(channel): the server confirms a JOIN the session has sent
Joined(s, name) ==
    /\ sup[s].state = "connected"
    /\ Contains(sup[s].protocol.sent, Line("JOIN", name))
    /\ ~Contains(sup[s].protocol.joined_channels, name)
    /\ sup' = [sup EXCEPT ![s].protocol = joined(sup[s].protocol, name)]
    /\ result' = NoCall
    /\ UNCHANGED <<db, networks, factories, connectors, connected_addresses,
                   trail, channels>>

\* the attempt fails: connector.connectionFailed, Factory.clientConnectionFailed
ClientConnectionFailed(s, cap) ==
    /\ sup[s].state = "connecting"
    /\ MayFail(sup[s], cap)
    /\ sup' = [sup EXCEPT ![s] = FailedFactory(sup[s])]
    /\ connected_addresses' = FailedAddresses(sup[s], connected_addresses)
    /\ result' = NoCall
    /\ UNCHANGED <<db, networks, factories, connectors, trail, channels>>

\* the established transport closes (by the peer, or after loseConnection):
\* Protocol.connectionLost, then connector.connectionLost and
\* Factory.clientConnectionLost
ClientConnectionLost(s) ==
    /\ sup[s].state = "connected"
    /\ sup' = [sup EXCEPT ![s] =
                   LostFactory([sup[s] EXCEPT !.protocol = connectionLost(@)])]
    /\ result' = NoCall
    /\ UNCHANGED <<db, networks, factories, connectors, connected_addresses,
                   trail, channels>>

\* the delayed call of reactor.callLater(retry_delay, connector.connect) runs
RetryTimerFires(s) ==
    /\ sup[s].timer.pending
    /\ sup[s].state = "disconnected"
    /\ sup' = [sup EXCEPT ![s].state = "connecting", ![s].timer = NoTimer]
    /\ result' = NoCall
    /\ UNCHANGED <<db, networks, factories, connectors, connected_addresses,
                   trail, channels>>

Next ==
    \/ LoadNetworks
    \/ \E n \in DOMAIN db : ModifyNetwork(n)
    \/ \E n \in NetIds : ConnectNetwork(n)
    \/ \E n \in NetIds, reconnect \in BOOLEAN :
          DisconnectNetwork(n, reconnect, MaxRetries)
    \/ \E s \in DOMAIN sup : BuildProtocol(s)
    \/ \E s \in DOMAIN sup : ClientConnectionFailed(s, MaxRetries)
    \/ \E s \in DOMAIN sup : ClientConnectionLost(s)
    \/ \E s \in DOMAIN sup : RetryTimerFires(s)

Spec == Init /\ [][Next]_vars

\* -------------------------------------------------------------------------
\* ManagerSpec: every manager operation, over a store whose network 1 has two
\* addresses, with the welcome numeric writing to the store behind the
\* manager's back
\* -------------------------------------------------------------------------
ManagerConfigs ==
    { Config(<<"a", "b">>, <<1, 2>>, <<3>>, FALSE, ac, ar) :
        ac \in BOOLEAN, ar \in BOOLEAN }

ManagerInit ==
    /\ \E c \in ManagerConfigs : db = [n \in {1} |-> c]
    /\ networks = EmptyMap
    /\ factories = EmptyMap
    /\ connectors = EmptyMap
    /\ connected_addresses = EmptyMap
    /\ sup = <<>>
    /\ result = NoCall
    /\ trail = <<>>
    /\ channels = [n \in {1} |-> <<>>]

ManagerNext ==
    \/ LoadNetworks
    \/ \E n \in NetIds : RemoveNetwork(n)
    \/ \E n \in NetIds : ReloadNetworkConfig(n)
    \/ \E n \in NetIds : ConnectNetwork(n)
    \/ \E n \in NetIds, reconnect \in BOOLEAN :
          DisconnectNetwork(n, reconnect, MaxManagerRetries)
    \/ \E n \in NetIds : ReconnectNetwork(n, MaxManagerRetries)
    \/ \E n \in NetIds : GetNetworkStatus(n)
    \/ \E s \in DOMAIN sup : BuildProtocol(s)
    \/ \E s \in DOMAIN sup : Irc001(s)
    \/ \E s \in DOMAIN sup : ClientConnectionFailed(s, MaxManagerRetries)
    \/ \E s \in DOMAIN sup : ClientConnectionLost(s)
    \/ \E s \in DOMAIN sup : RetryTimerFires(s)

ManagerSpec == ManagerInit /\ [][ManagerNext]_vars

\* -------------------------------------------------------------------------
\* BackoffSpec: one supervisor followed through long failure sequences.
\* Its initial state is the one connect_network leaves for network 1.
\* -------------------------------------------------------------------------
BackoffConfigs ==
    { Config(<<"a", "b">>, <<1, 2>>, <<3>>, ssl, TRUE, ar) :
        ssl \in BOOLEAN, ar \in BOOLEAN }

ConnectedInitWith(c, rows) ==
    /\ db = [n \in {1} |-> c]
    /\ networks = [n \in {1} |-> c]
    /\ factories = [n \in {1} |-> 1]
    /\ connectors = [n \in {1} |-> 1]
    /\ connected_addresses = [n \in {1} |-> <<c.addresses[1], active_ports(c)[1]>>]
    /\ sup = <<StartConnector(NewFactory(1, c), c.addresses[1],
                              active_ports(c)[1])>>
    /\ result = Result("connect_network", 1, TRUE)
    /\ trail = <<>>
    /\ channels = [n \in {1} |-> rows]

ConnectedInit(c) == ConnectedInitWith(c, <<>>)

BackoffInit == \E c \in BackoffConfigs : ConnectedInit(c)

BackoffNext ==
    \/ \E reconnect \in BOOLEAN :
          DisconnectNetwork(1, reconnect, MaxBackoffRetries)
    \/ BuildProtocol(1)
    \/ SignedOn(1)
    \/ ClientConnectionFailed(1, MaxBackoffRetries)
    \/ ClientConnectionLost(1)
    \/ RetryTimerFires(1)

BackoffSpec == BackoffInit /\ [][BackoffNext]_vars

\* -------------------------------------------------------------------------
\* SessionSpec: the protocol sessions of one supervisor, over every
\* authentication setting and every channel table of up to MaxChannels rows.
\* The server sends the SASL numerics in any order and number up to
\* MaxNumerics, and confirms JOINs the session has sent.
\* -------------------------------------------------------------------------
SessionConfigs ==
    { [Config(<<"a", "b">>, <<1, 2>>, <<3>>, FALSE, TRUE, TRUE)
          EXCEPT !.auth_mechanism = auth,
                 !.sasl_mechanism = sasl,
                 !.oper_auth = oper] :
        auth \in 0..3, sasl \in 0..2, oper \in BOOLEAN }

ChannelPool == <<"#a", "#b", "#c", "#d", "#e">>

\* rows of irc_channels of one network: the id is the primary key, the name
\* is unique within the network
ChannelTables ==
    UNION { [1..len -> BOOLEAN] : len \in 0..Min(MaxChannels, Len(ChannelPool)) }

ChannelRows(flags) ==
    [i \in DOMAIN flags |->
        [id |-> i, name |-> ChannelPool[i], auto_join |-> flags[i],
         auto_rejoin |-> FALSE, command_prefix |-> <<>>]]

SessionInit ==
    \E c \in SessionConfigs, flags \in ChannelTables :
        ConnectedInitWith(c, ChannelRows(flags))

SessionNext ==
    \/ BuildProtocol(1)
    \/ Irc903(1)
    \/ Irc904(1)
    \/ SignedOn(1)
    \/ \E i \in 1..Len(ChannelPool) : Joined(1, ChannelPool[i])
    \/ ClientConnectionLost(1)
    \/ RetryTimerFires(1)

SessionSpec == SessionInit /\ [][SessionNext]_vars

\* -------------------------------------------------------------------------
\* RotationSpec: _rotate_connection_target applied again and again to a
\* supervisor whose config has duplicate-free, non-empty lists
\* -------------------------------------------------------------------------
RECURSIVE DupFreeLists(_, _)
DupFreeLists(S, len) ==
    IF len = 0 THEN {<<>>}
    ELSE LET shorter == DupFreeLists(S, len - 1)
             grown == { y \in shorter \X S :
                          Len(y[1]) = len - 1 /\ ~Contains(y[1], y[2]) }
         IN shorter \cup { Append(y[1], y[2]) : y \in grown }

AddressPool == <<"a", "b", "c", "d", "e">>

RotationAddressLists ==
    DupFreeLists({ AddressPool[i] : i \in 1..Min(MaxListLen, Len(AddressPool)) },
                 MaxListLen) \ {<<>>}

RotationPortLists == DupFreeLists(1..MaxListLen, MaxListLen) \ {<<>>}

RotationSslPortLists == {<<7>>, <<7, 8>>}

RotationConfigs ==
    { Config(a, p, sp, ssl, TRUE, TRUE) :
        a \in RotationAddressLists, p \in RotationPortLists,
        sp \in RotationSslPortLists, ssl \in BOOLEAN }

RotationInit == \E c \in RotationConfigs : ConnectedInit(c)

RotateConnectionTarget(s) ==
    /\ Len(trail) < MaxRotations
    /\ sup' = [sup EXCEPT ![s].current_address = RotatedTarget(sup[s])[1],
                          ![s].current_port = RotatedTarget(sup[s])[2]]
    /\ connected_addresses' =
           Put(connected_addresses, sup[s].net, RotatedTarget(sup[s]))
    /\ trail' = Append(trail, RotatedTarget(sup[s]))
    /\ result' = NoCall
    /\ UNCHANGED <<db, networks, factories, connectors, channels>>

RotationNext == RotateConnectionTarget(1)

RotationSpec == RotationInit /\ [][RotationNext]_vars


\* -------------------------------------------------------------------------
\* NickSpec: nickname collisions on the session of one supervisor, over every
\* candidate list of up to MaxNicknames entries (repeated entries included).
\* The nick command may request any nickname before the server reports
\* collisions; `trail' holds <<collided nickname, nickname requested next>>.
\* -------------------------------------------------------------------------
MaxNicknames == 3        \* longest candidate list of NickSpec
MaxCollisions == 7       \* collisions followed within one session
MaxNickCommands == 1     \* nick commands followed within one session

NickPool == <<"X", "X_", "X__", "Y", "Z">>

\* a nickname that is on no candidate list
AbsentNickname == "Guest"

NicknameLists ==
    UNION { [1..len -> { NickPool[i] : i \in 1..Min(MaxNicknames, Len(NickPool)) }] :
              len \in 0..MaxNicknames }

NickConfigs ==
    { [Config(<<"a", "b">>, <<1, 2>>, <<3>>, FALSE, TRUE, TRUE)
          EXCEPT !.nicknames = list] : list \in NicknameLists }

NickInit == \E c \in NickConfigs : ConnectedInit(c)

NickLinesSent(p) == Cardinality({ i \in 1..Len(p.sent) : p.sent[i].cmd = "NICK" })

\* command_nick of the utilities plugin: bot.setNick(new_nick)
SetNick(s, name) ==
    /\ sup[s].state = "connected"
    /\ trail = <<>>
    /\ NickLinesSent(sup[s].protocol) <= MaxNickCommands
    /\ sup' = [sup EXCEPT ![s].protocol = setNick(sup[s].protocol, name)]
    /\ result' = NoCall
    /\ UNCHANGED <<db, networks, factories, connectors, connected_addresses,
                   trail, channels>>

\* ERR_NICKNAMEINUSE for the nickname the session has requested
NicknameInUse(s) ==
    /\ sup[s].state = "connected"
    /\ Len(trail) < MaxCollisions
    /\ sup' = [sup EXCEPT ![s].protocol =
                   alterCollidedNick(sup[s].protocol, sup[s].config)]
    /\ trail' = Append(trail,
                       <<sup[s].protocol.attempted,
                         alterCollidedNick(sup[s].protocol,
                                           sup[s].config).attempted>>)
    /\ result' = NoCall
    /\ UNCHANGED <<db, networks, factories, connectors, connected_addresses,
                   channels>>

NickNext ==
    \/ BuildProtocol(1)
    \/ \E name \in { NickPool[i] : i \in 1..Len(NickPool) } \cup {AbsentNickname} :
          SetNick(1, name)
    \/ NicknameInUse(1)

NickSpec == NickInit /\ [][NickNext]_vars


\* -------------------------------------------------------------------------
\* MembershipSpec: the membership events of a registered session.  The server
\* reports joins, parts and kicks of the session's nickname for any channel,
\* in any order, up to MaxMembershipEvents per session.
\* -------------------------------------------------------------------------
MaxMembershipRows == 2   \* rows of the channel table in MembershipSpec
MaxMembershipEvents == 3 \* membership events followed within one session

\* the channels the server may name: those of the table and one more
MembershipChannels ==
    { ChannelPool[i] : i \in 1..Min(MaxMembershipRows + 1, Len(ChannelPool)) }

MembershipRows(join, rejoin) ==
    [i \in DOMAIN join |-> [ChannelRows(join)[i] EXCEPT !.auto_rejoin = rejoin[i]]]

MembershipInit ==
    \E len \in 0..Min(MaxMembershipRows, Len(ChannelPool)) :
        \E join \in [1..len -> BOOLEAN], rejoin \in [1..len -> BOOLEAN] :
            ConnectedInitWith(Config(<<"a", "b">>, <<1, 2>>, <<3>>,
                                     FALSE, TRUE, TRUE),
                              MembershipRows(join, rejoin))

\* a membership event reaches the handler `handled' of the registered session
MembershipStep(s, handled) ==
    /\ sup[s].state = "connected"
    /\ sup[s].protocol.signedOn
    /\ Len(sup[s].protocol.events) < MaxMembershipEvents
    /\ sup' = [sup EXCEPT ![s].protocol = handled]
    /\ result' = NoCall
    /\ UNCHANGED <<db, networks, factories, connectors, connected_addresses,
                   trail, channels>>

\* JOIN of the session's nickname, asked for by the session or not
ServerJoins(s, name) == MembershipStep(s, joined(sup[s].protocol, name))

\* PART of the session's nickname
Left(s, name) == MembershipStep(s, left(sup[s].protocol, name))

\* KICK of the session's nickname
KickedFrom(s, name) ==
    MembershipStep(s, kickedFrom(sup[s].protocol, get_channels(sup[s].net), name))

MembershipNext ==
    \/ BuildProtocol(1)
    \/ SignedOn(1)
    \/ \E name \in MembershipChannels : ServerJoins(1, name)
    \/ \E name \in MembershipChannels : Left(1, name)
    \/ \E name \in MembershipChannels : KickedFrom(1, name)
    \/ ClientConnectionLost(1)
    \/ RetryTimerFires(1)

MembershipSpec == MembershipInit /\ [][MembershipNext]_vars


\* -------------------------------------------------------------------------
\* MessageSpec: one inbound chat message handled by a registered session.
\* `trail' holds the message handled, drawn from every text of up to MaxTextLen
\* characters sent by a well-formed sender and every sender of up to
\* MaxSenderLen characters sending a sample text, to the session's nickname,
\* to a channel with a command prefix of its own or to one without.
\* -------------------------------------------------------------------------
MaxTextLen == 3          \* longest enumerated message text
MaxSenderLen == 4        \* longest enumerated sender

TextAlphabet == {"p", "!", "?", " ", "\"", "\\"}

SampleTexts ==
    { <<"p", "i", "n", "g">>, <<"!", "p", "i", "n", "g">>,
      <<"!", "n", "o">>, <<"!", "p", " ", "\"", "p">>, <<"?", "p">>,
      <<"r", " ", "\"", "h", " ", "w", "\"", " ", "t">>,
      <<"p", " ", "'", "p">> }

Texts == SampleTexts \cup UNION { [1..len -> TextAlphabet] : len \in 0..MaxTextLen }

SampleSender == <<"n", "!", "i", "@", "h">>

Senders ==
    {SampleSender} \cup UNION { [1..len -> {"n", "!", "@"}] : len \in 0..MaxSenderLen }

Inbound(user, channel, message) ==
    [user |-> user, channel |-> channel, message |-> message]

MessageTargets == {DefaultNickname, ChannelPool[1], ChannelPool[2]}

InboundMessages ==
    { Inbound(SampleSender, channel, message) :
        channel \in MessageTargets, message \in Texts }
    \cup { Inbound(user, channel, message) :
             user \in Senders, channel \in MessageTargets,
             message \in SampleTexts }

\* the channel table: the first channel may have a command prefix of its own
MessageRows(prefix) ==
    [i \in 1..2 |-> [ChannelRows([j \in 1..2 |-> FALSE])[i]
                        EXCEPT !.command_prefix = IF i = 1 THEN prefix ELSE <<>>]]

MessageInit ==
    \E default \in {<<"!">>, <<>>}, own \in {<<"?">>, <<>>} :
        ConnectedInitWith([Config(<<"a", "b">>, <<1, 2>>, <<3>>,
                                  FALSE, TRUE, TRUE)
                              EXCEPT !.command_prefix = default],
                          MessageRows(own))

\* Protocol.privmsg on the registered session, once in a behaviour
Privmsg(s, inbound) ==
    /\ sup[s].state = "connected"
    /\ sup[s].protocol.signedOn
    /\ trail = <<>>
    /\ sup' = [sup EXCEPT ![s].protocol =
                   privmsg(sup[s].protocol, sup[s].config,
                           get_channels(sup[s].net), inbound.user,
                           inbound.channel, inbound.message)]
    /\ trail' = <<inbound>>
    /\ result' = NoCall
    /\ UNCHANGED <<db, networks, factories, connectors, connected_addresses,
                   channels>>

MessageNext ==
    \/ BuildProtocol(1)
    \/ SignedOn(1)
    \/ \E inbound \in InboundMessages : Privmsg(1, inbound)

MessageSpec == MessageInit /\ [][MessageNext]_vars


\* -------------------------------------------------------------------------
\* SchedulerSpec: the scheduler plugin's commands on the registered session
\* of one supervisor, the timers of its tasks, and the loss and rebuilding
\* of the session.  Up to MaxTasks tasks are scheduled in a behaviour, with
\* max_runs up to MaxRuns; the timer of a task without max_runs is followed
\* for MaxFires fires.
\* -------------------------------------------------------------------------
MaxTasks == 2            \* tasks scheduled within one behaviour
MaxRuns == 3             \* largest max_runs given to schedule or modify
MaxFires == 2            \* fires followed for a task without max_runs

SchedulerInit ==
    ConnectedInit(Config(<<"a", "b">>, <<1, 2>>, <<3>>, FALSE, TRUE, TRUE))

\* a command of the scheduler plugin reaches the registered session and
\* leaves its scheduler as `sch'
SchedulerCommand(s, sch) ==
    /\ sup[s].state = "connected"
    /\ sup[s].protocol.signedOn
    /\ sch # sup[s].protocol.scheduler
    /\ sup' = [sup EXCEPT ![s].protocol.scheduler = sch]
    /\ result' = NoCall
    /\ UNCHANGED <<db, networks, factories, connectors, connected_addresses,
                   trail, channels>>

\* "schedule message ..." or "schedule reminder ...": the new task remembers
\* the max_runs the command was given
Schedule(s, type, max_runs, auto_start) ==
    /\ Len(sup[s].orphans) + sup[s].protocol.scheduler.next_id <= MaxTasks
    /\ SchedulerCommand(s,
           [command_schedule(sup[s].protocol.scheduler, type, max_runs,
                             auto_start)
               EXCEPT !.tasks[sup[s].protocol.scheduler.next_id].asked =
                          IF type = "message" THEN max_runs ELSE 0])

\* faulty variant: "task start ID" calls resume_task
StartTask_resuming(s, id) ==
    SchedulerCommand(s, resume_task(sup[s].protocol.scheduler, id))

\* "task start ID"
StartTask(s, id) == SchedulerCommand(s, start_task(sup[s].protocol.scheduler, id))

\* "task stop ID"
StopTask(s, id) == SchedulerCommand(s, stop_task(sup[s].protocol.scheduler, id))

\* faulty variant: "task pause ID" calls stop_task
PauseTask_stopping(s, id) ==
    SchedulerCommand(s, stop_task(sup[s].protocol.scheduler, id))

\* "task pause ID"
PauseTask(s, id) == SchedulerCommand(s, pause_task(sup[s].protocol.scheduler, id))

\* "task resume ID"
ResumeTask(s, id) == SchedulerCommand(s, resume_task(sup[s].protocol.scheduler, id))

\* "task remove ID"
RemoveTask(s, id) == SchedulerCommand(s, remove_task(sup[s].protocol.scheduler, id))

\* "modify ID -i SECONDS" (max_runs = 0: not given) or "modify ID -m N"
ModifyTask(s, id, max_runs) ==
    SchedulerCommand(s, modify_task(sup[s].protocol.scheduler, id, max_runs))

\* the timers the reactor may hold: of the tasks of the supervisor's current
\* session object and of the tasks of the sessions before it
Timers(s) ==
    { <<"session", id>> : id \in DOMAIN sup[s].protocol.scheduler.tasks }
        \cup { <<"orphan", k>> : k \in 1..Len(sup[s].orphans) }

TimerTask(s, timer) ==
    IF timer[1] = "session" THEN sup[s].protocol.scheduler.tasks[timer[2]]
    ELSE sup[s].orphans[timer[2]]

\* a pending timer of a task fires
TaskTimerFires(s, timer) ==
    /\ Armed(TimerTask(s, timer))
    /\ TimerTask(s, timer).max_runs = 0 =>
           TimerTask(s, timer).run_count < MaxFires
    /\ sup' = IF timer[1] = "session"
              THEN [sup EXCEPT ![s].protocol.scheduler.tasks[timer[2]] = fired(@)]
              ELSE [sup EXCEPT ![s].orphans[timer[2]] = fired(@)]
    /\ result' = NoCall
    /\ UNCHANGED <<db, networks, factories, connectors, connected_addresses,
                   trail, channels>>

SchedulerNext ==
    \/ BuildProtocol(1)
    \/ SignedOn(1)
    \/ \E type \in {"message", "reminder"}, max_runs \in 0..MaxRuns,
          auto_start \in BOOLEAN : Schedule(1, type, max_runs, auto_start)
    \/ \E id \in 1..MaxTasks : StartTask(1, id)
    \/ \E id \in 1..MaxTasks : StopTask(1, id)
    \/ \E id \in 1..MaxTasks : PauseTask(1, id)
    \/ \E id \in 1..MaxTasks : ResumeTask(1, id)
    \/ \E id \in 1..MaxTasks : RemoveTask(1, id)
    \/ \E id \in 1..MaxTasks, max_runs \in 0..MaxRuns : ModifyTask(1, id, max_runs)
    \/ \E timer \in Timers(1) : TaskTimerFires(1, timer)
    \/ ClientConnectionLost(1)
    \/ RetryTimerFires(1)

SchedulerSpec == SchedulerInit /\ [][SchedulerNext]_vars

\* the reactor runs every delayed call that stays due
FairSchedulerSpec ==
    SchedulerSpec
        /\ \A timer \in ({"session"} \X (1..MaxTasks)) :
               WF_vars(timer \in Timers(1) /\ TaskTimerFires(1, timer))

\* -------------------------------------------------------------------------
\* SaslSpec: the sessions of one supervisor over every authentication
\* setting, with a server that sends capability, AUTHENTICATE and SASL
\* numeric lines in any order, up to MaxServerLines to a session.
\* -------------------------------------------------------------------------
MaxServerLines == 4      \* lines of the server handled by one session

SaslConfigs ==
    { [Config(<<"a", "b">>, <<1, 2>>, <<3>>, FALSE, TRUE, TRUE)
          EXCEPT !.auth_mechanism = auth, !.sasl_mechanism = sasl] :
        auth \in 0..3, sasl \in 0..2 }

\* the lines of the server: command and params
ServerLines ==
    { <<"CAP", <<"*", "ACK", <<"sasl">>>>>>,
      <<"CAP", <<"*", "NAK", <<"sasl">>>>>>,
      <<"CAP", <<"*", "ACK", <<"multi-prefix">>>>>>,
      <<"AUTHENTICATE", <<"+">>>>,
      <<"903", <<>>>>,
      <<"904", <<>>>> }

SaslInit == \E c \in SaslConfigs : ConnectedInit(c)

\* a line of the server reaches the live session
LineReceived(s, line) ==
    /\ sup[s].state = "connected"
    /\ Len(sup[s].protocol.received) < MaxServerLines
    /\ sup' = [sup EXCEPT ![s].protocol =
                   handleCommand(@, sup[s].config, line[1], line[2])]
    /\ result' = NoCall
    /\ UNCHANGED <<db, networks, factories, connectors, connected_addresses,
                   trail, channels>>

SaslNext ==
    \/ BuildProtocol(1)
    \/ \E line \in ServerLines : LineReceived(1, line)
    \/ ClientConnectionLost(1)
    \/ RetryTimerFires(1)

SaslSpec == SaslInit /\ [][SaslNext]_vars


\* -------------------------------------------------------------------------
\* CycleSpec: the `channel cycle' command on a registered session.  The
\* command is given for any channel id, known or not, up to MaxCycles times
\* per session, each time after the server has answered the JOINs and PARTs
\* sent before; the server answers them in the order they were sent.
\* -------------------------------------------------------------------------
MaxCycles == 2           \* cycle commands followed within one session

\* Protocol.part_channel(channel_id, save_to_db=False): the row is looked up
\* by id, and nothing is sent for a channel the session is not in
part_channel(p, rows, channel_id) ==
    IF \A i \in 1..Len(rows) : IntValue(rows[i].id) # channel_id THEN <<>>
    ELSE LET row == rows[CHOOSE i \in 1..Len(rows) :
                            /\ IntValue(rows[i].id) = channel_id
                            /\ \A j \in 1..(i - 1) :
                                   IntValue(rows[j].id) # channel_id]
         IN IF Contains(p.joined_channels, row.name)
            THEN <<Line("PART", row.name)>>
            ELSE <<>>

\* handle_cycle with an integer argument: the id is searched in the rows of
\* every stored network; part_channel and join_channel then look it up in
\* the rows of the session's own network
handle_cycle(p, n, target, nickname, channel_id) ==
    IF \A m \in DOMAIN db : \A i \in 1..Len(get_channels(m)) :
           get_channels(m)[i].id # channel_id
    THEN send_message(p, target, "Error channel ID not found in database",
                      nickname)
    ELSE LET told == send_message(p, target, "Success: channel ID cycled",
                                  nickname)
         IN [told EXCEPT !.sent = @
                \o part_channel(told, get_channels(n), IntValue(channel_id))
                \o join_channel(told, get_channels(n), IntValue(channel_id))]

\* the JOINs and PARTs among the lines a session has sent
IsMembershipLine(line) == line.cmd \in {"JOIN", "PART"}

MembershipLines(p) == SelectSeq(p.sent, IsMembershipLine)

\* the server has answered every JOIN and PART of the session
Answered(p) == Len(p.events) = Len(MembershipLines(p))

\* the `channel cycle' commands the session has been given
CycleCommands(p) == Len(p.dispatched)

CycleInit ==
    \E flags \in ChannelTables :
        ConnectedInitWith(Config(<<"a", "b">>, <<1, 2>>, <<3>>,
                                 FALSE, TRUE, TRUE),
                          ChannelRows(flags))

\* `channel cycle <channel_id>' reaches the registered session
Cycle(s, channel_id) ==
    /\ sup[s].state = "connected"
    /\ sup[s].protocol.signedOn
    /\ Answered(sup[s].protocol)
    /\ CycleCommands(sup[s].protocol) < MaxCycles
    /\ sup' = [sup EXCEPT ![s].protocol =
                   [handle_cycle(@, sup[s].net, ChannelPool[1], <<"n">>,
                                 channel_id)
                       EXCEPT !.dispatched = Append(@,
                           [command |-> "channel",
                            args |-> <<"cycle", channel_id>>,
                            target |-> ChannelPool[1],
                            nickname |-> <<"n">>])]]
    /\ result' = NoCall
    /\ UNCHANGED <<db, networks, factories, connectors, connected_addresses,
                   trail, channels>>

\* the server answers the oldest JOIN or PART not yet answered: the session's
\* own JOIN or PART comes back and reaches Protocol.joined or Protocol.left
ServerAnswers(s) ==
    /\ sup[s].state = "connected"
    /\ ~Answered(sup[s].protocol)
    /\ LET line == MembershipLines(sup[s].protocol)
                       [Len(sup[s].protocol.events) + 1]
       IN sup' = [sup EXCEPT ![s].protocol =
                      IF line.cmd = "JOIN" THEN joined(@, line.arg)
                      ELSE left(@, line.arg)]
    /\ result' = NoCall
    /\ UNCHANGED <<db, networks, factories, connectors, connected_addresses,
                   trail, channels>>

CycleNext ==
    \/ BuildProtocol(1)
    \/ SignedOn(1)
    \/ \E channel_id \in 1..(MaxChannels + 1) : Cycle(1, channel_id)
    \/ ServerAnswers(1)
    \/ ClientConnectionLost(1)
    \/ RetryTimerFires(1)

CycleSpec == CycleInit /\ [][CycleNext]_vars

\* =========================================================================
\* Claims
\* =========================================================================
Target(f) == <<f.current_address, f.current_port>>

PrimaryTarget(f) == <<primary_address(f.config), primary_port(f.config)>>

\* the manager's connector table points at supervisor s
Registered(s) == \E n \in DOMAIN connectors : connectors[n] = s

\* supervisor s was handed to the reactor and later removed from the manager
\* by disconnect_network(reconnect=false)
Detached(s) == sup[s].state # "none" /\ ~Registered(s)

\* C1: after disconnect_network(id, reconnect=false) succeeded on a network
\* whose transport was connected, the connection-lost callback of the torn
\* down transport schedules no retry, whatever the auto-reconnect flag.
C1_TeardownSchedulesNoRetry ==
    [][\A s \in DOMAIN sup :
          (Detached(s) /\ sup[s].state = "connected"
              /\ sup'[s].state = "disconnected")
          => ~sup'[s].timer.pending]_vars

\* C2: once disconnect_network(id, reconnect=false) has run on a network whose
\* config has auto-reconnect disabled (it has set should_reconnect=false on
\* the supervisor), that supervisor starts no new connect attempt.
C2_NoAttemptAfterDisconnect ==
    [][\A s \in DOMAIN sup :
          (Detached(s) /\ ~sup[s].should_reconnect)
          => ~(sup[s].state = "disconnected"
                  /\ sup'[s].state = "connecting")]_vars

\* C3: disconnect_network(id) called while the supervisor's retry timer is
\* pending cancels that timer.
C3_DisconnectCancelsTimer ==
    [][\A s \in DOMAIN sup :
          (Registered(s) /\ sup[s].timer.pending
              /\ result'.op = "disconnect_network" /\ result'.ok
              /\ result'.id = sup[s].net /\ ~result'.reconnect)
          => ~sup'[s].timer.pending]_vars

\* the delays 5.0, 7.5, 11.25, ... capped at 300.0: the k-th of them
RECURSIVE ClaimedDelay(_)
ClaimedDelay(k) ==
    IF k <= 1 THEN InitialRetryDelay
    ELSE Min((ClaimedDelay(k - 1) * 3) \div 2, MaxRetryDelay)

\* C4: for a supervisor that never built a session, the retry scheduled after
\* the k-th consecutive connect failure waits the k-th delay of the sequence
\* 5.0, 7.5, 11.25, 16.875, ... (capped at 300.0), the first one 5.0 s.
C4_DelaysStartAtInitial ==
    \A s \in DOMAIN sup :
        (sup[s].timer.pending /\ sup[s].timer.cause = "failed"
            /\ ~sup[s].protocol.exists)
        => sup[s].timer.delay = ClaimedDelay(sup[s].retry_count)

\* C5: in every reachable state of a supervisor
\* 5.0 <= retry_delay <= 300.0 and retry_count >= 0.
C5_RetryDelayInRange ==
    \A s \in DOMAIN sup :
        /\ InitialRetryDelay <= sup[s].retry_delay
        /\ sup[s].retry_delay <= MaxRetryDelay
        /\ sup[s].retry_count >= 0

\* C5 witness: enough consecutive failures for the cap to have cut the delay
C5_Witness ==
    \E s \in DOMAIN sup :
        /\ sup[s].retry_delay = MaxRetryDelay
        /\ sup[s].retry_count = MaxBackoffRetries
        /\ sup[s].timer.pending

\* C6 as stated: whenever the transport is established, retry_delay = 5.0.
C6_EstablishedHasInitialDelay ==
    \A s \in DOMAIN sup :
        sup[s].state = "connected" => sup[s].retry_delay = InitialRetryDelay

\* C6 as amended: retry_delay is reset to 5.0 when an established connection
\* is lost with reconnection permitted: while the retry scheduled by such a
\* loss is pending, retry_delay = 5.0 and that retry waits 5.0 s.
C6_ResetWhenLost ==
    \A s \in DOMAIN sup :
        (sup[s].timer.pending /\ sup[s].timer.cause = "lost")
        => /\ sup[s].retry_delay = InitialRetryDelay
           /\ sup[s].timer.delay = InitialRetryDelay

\* C6 witness: a connection established after failures (the target has been
\* rotated away from the primary one) was lost before registration completed
C6_Witness ==
    \E s \in DOMAIN sup :
        /\ sup[s].timer.pending /\ sup[s].timer.cause = "lost"
        /\ Target(sup[s]) # PrimaryTarget(sup[s])
        /\ ~sup[s].protocol.signedOn

\* C7: when an established connection is lost and reconnection is permitted,
\* retry_count becomes 0 and retry_delay 5.0, the retry is scheduled after
\* exactly 5.0 s, and the target is not rotated.
C7_LossRestartsBackoff ==
    [][\A s \in DOMAIN sup :
          (sup[s].state = "connected" /\ sup'[s].state = "disconnected"
              /\ ReconnectPermitted(sup[s]))
          => /\ sup'[s].retry_count = 0
             /\ sup'[s].retry_delay = InitialRetryDelay
             /\ sup'[s].timer = RetryTimer(InitialRetryDelay, "lost")
             /\ Target(sup'[s]) = Target(sup[s])]_vars

\* C7 witness: a registered session's connection, established after failures,
\* was lost and its retry is pending
C7_Witness ==
    \E s \in DOMAIN sup :
        /\ sup[s].timer = RetryTimer(InitialRetryDelay, "lost")
        /\ sup[s].retry_count = 0
        /\ sup[s].protocol.signedOn
        /\ Target(sup[s]) # PrimaryTarget(sup[s])

\* the pair reached from the primary target by k rotations when every pair of
\* addresses x ports is visited once, ports innermost, addresses in list order
CyclePair(c, k) ==
    <<c.addresses[((k \div Len(active_ports(c))) % Len(c.addresses)) + 1],
      active_ports(c)[(k % Len(active_ports(c))) + 1]>>

CycleLength(c) == Len(c.addresses) * Len(active_ports(c))

AllPairs(c) ==
    { <<c.addresses[i], active_ports(c)[j]>> :
        i \in 1..Len(c.addresses), j \in 1..Len(active_ports(c)) }

ExampleCycle ==
    << <<"a", 2>>, <<"b", 1>>, <<"b", 2>>, <<"c", 1>>, <<"c", 2>>, <<"a", 1>> >>

\* C8: from the primary target, successive rotations visit every pair of
\* addresses x active ports exactly once, ports innermost and addresses in list
\* order, and are back at the primary target after |A|*|P| rotations; for
\* A=[a,b,c], P=[1,2] they give (a,2),(b,1),(b,2),(c,1),(c,2),(a,1).
C8_RotationCycle ==
    LET c == sup[1].config
        n == CycleLength(c)
    IN /\ \A k \in 1..Len(trail) : trail[k] = CyclePair(c, k)
       /\ Len(trail) >= n =>
             /\ { trail[k] : k \in 1..n } = AllPairs(c)
             /\ \A j, k \in 1..n : trail[j] = trail[k] => j = k
             /\ trail[n] = <<primary_address(c), primary_port(c)>>
       /\ (c.addresses = <<"a", "b", "c">> /\ active_ports(c) = <<1, 2>>)
             => \A k \in 1..Min(Len(trail), 6) : trail[k] = ExampleCycle[k]

\* C8 witness: the example config has been rotated through its whole cycle
C8_Witness ==
    /\ sup[1].config.addresses = <<"a", "b", "c">>
    /\ active_ports(sup[1].config) = <<1, 2>>
    /\ Len(trail) = 6
    /\ Target(sup[1]) = <<"a", 1>>

\* C9: every transport attempt goes to the supervisor's current target
\* (the first to the primary pair, each retry to the rotated pair), and the
\* pair in the connected-address table is the pair the attempt in progress (or
\* established) of the registered connector was made to.
C9_AttemptsGoToCurrentTarget ==
    /\ \A s \in DOMAIN sup :
          sup[s].state \in {"connecting", "connected"}
          => <<sup[s].host, sup[s].port>> = Target(sup[s])
    /\ \A n \in DOMAIN connectors :
          (n \in DOMAIN connected_addresses
              /\ sup[connectors[n]].state \in {"connecting", "connected"})
          => connected_addresses[n] =
                <<sup[connectors[n]].host, sup[connectors[n]].port>>

\* C10: connect_network(id) on an unknown id, on an id with a registered
\* supervisor, or on a config with auto-connect disabled reports failure,
\* starts no transport attempt and leaves the three registries unchanged.
C10_RefusedConnectChangesNothing ==
    [][\A n \in NetIds :
          (result'.op = "connect_network" /\ result'.id = n
              /\ (\/ n \notin DOMAIN networks
                  \/ n \in DOMAIN factories
                  \/ ~networks[n].auto_connect))
          => /\ ~result'.ok
             /\ sup' = sup
             /\ factories' = factories
             /\ connectors' = connectors
             /\ connected_addresses' = connected_addresses]_vars

\* the entry of a registry for id n, empty when there is none
EntryOf(map, n) == IF n \in DOMAIN map THEN <<map[n]>> ELSE <<>>

\* C11: disconnect_network(id) on a network with no registered connection
\* reports failure and changes no manager or supervisor state, and a second
\* connect_network(id) on a connected network reports failure and starts no
\* second transport attempt.
C11_RepeatedCallsRefused ==
    [][\A n \in NetIds :
          /\ (result'.op = "disconnect_network" /\ result'.id = n
                  /\ n \notin DOMAIN connectors)
             => /\ ~result'.ok
                /\ UNCHANGED <<db, networks, factories, connectors,
                               connected_addresses, sup, channels>>
          /\ (result'.op = "connect_network" /\ result'.id = n
                  /\ n \in DOMAIN connectors)
             => /\ ~result'.ok
                /\ UNCHANGED <<db, networks, factories, connectors,
                               connected_addresses, sup, channels>>]_vars

\* C11 witness: connect_network was refused on a network whose only
\* supervisor has its transport established
C11_Witness ==
    /\ result.op = "connect_network" /\ ~result.ok
    /\ result.id \in DOMAIN connectors
    /\ sup[connectors[result.id]].state = "connected"
    /\ Len(sup) = 1

\* C12 as stated: after disconnect_network(id, reconnect=false) succeeds the
\* manager holds no supervisor, connector or connected-address entry for id;
\* after disconnect_network(id, reconnect=true) succeeds all three entries
\* are retained unchanged.
C12_EntriesClearedOrUnchanged ==
    [][\A n \in NetIds :
          (result'.op = "disconnect_network" /\ result'.id = n /\ result'.ok)
          => IF result'.reconnect
             THEN /\ EntryOf(factories', n) = EntryOf(factories, n)
                  /\ EntryOf(connectors', n) = EntryOf(connectors, n)
                  /\ EntryOf(connected_addresses', n)
                         = EntryOf(connected_addresses, n)
                  /\ n \in DOMAIN factories' /\ n \in DOMAIN connectors'
                  /\ n \in DOMAIN connected_addresses'
             ELSE /\ n \notin DOMAIN factories'
                  /\ n \notin DOMAIN connectors'
                  /\ n \notin DOMAIN connected_addresses']_vars

\* C12 as amended: with reconnect=false the three entries are gone; with
\* reconnect=true the supervisor and connector entries are retained unchanged
\* and the connected-address entry is retained, unchanged unless the call
\* aborts a connect attempt in progress with reconnection permitted, which
\* rotates it to the supervisor's next target.
C12_EntriesClearedOrRetained ==
    [][\A n \in NetIds :
          (result'.op = "disconnect_network" /\ result'.id = n /\ result'.ok)
          => IF result'.reconnect
             THEN /\ EntryOf(factories', n) = EntryOf(factories, n)
                  /\ EntryOf(connectors', n) = EntryOf(connectors, n)
                  /\ n \in DOMAIN factories' /\ n \in DOMAIN connectors'
                  /\ n \in DOMAIN connected_addresses'
                  /\ connected_addresses'[n] =
                        IF /\ sup[connectors[n]].state = "connecting"
                           /\ ReconnectPermitted(sup[connectors[n]])
                        THEN Target(sup'[connectors[n]])
                        ELSE connected_addresses[n]
             ELSE /\ n \notin DOMAIN factories'
                  /\ n \notin DOMAIN connectors'
                  /\ n \notin DOMAIN connected_addresses']_vars

\* C12 witness: disconnect_network(id, reconnect=true) has aborted an attempt
\* in progress and the connected-address entry shows the rotated target
C12_Witness ==
    /\ result.op = "disconnect_network" /\ result.ok /\ result.reconnect
    /\ result.id \in DOMAIN connectors
    /\ sup[connectors[result.id]].timer.pending
    /\ connected_addresses[result.id] = Target(sup[connectors[result.id]])
    /\ Target(sup[connectors[result.id]])
           # PrimaryTarget(sup[connectors[result.id]])

\* C13: reconnect_network(id) on a connected network with auto-connect
\* enabled tears the old transport down, initiates a new transport attempt
\* in its connect step and reports success, whatever the auto-reconnect flag.
C13_ReconnectStartsNewAttempt ==
    [][\A n \in NetIds :
          (result'.op = "reconnect_network" /\ result'.id = n
              /\ n \in DOMAIN connectors /\ n \in DOMAIN networks
              /\ networks[n].auto_connect
              /\ sup[connectors[n]].state = "connected")
          => /\ result'.ok
             /\ sup'[connectors[n]].closing
             /\ Len(sup') = Len(sup) + 1
             /\ sup'[Len(sup')].state = "connecting"
             /\ sup'[Len(sup')].net = n]_vars

\* C14: after load_networks() returns, the set of network ids held by the
\* manager equals the set of ids in the persistent store ('network remove'
\* reloads after deleting the row).
C14_LoadReplacesConfigSet ==
    result.op = "load_networks" => DOMAIN networks = DOMAIN db

\* the supervisor registered for network n has a live session: its transport
\* is established
LiveSession(n) ==
    n \in DOMAIN factories /\ sup[factories[n]].state = "connected"

\* C15: get_network_status(id) carries the session fields (nickname,
\* channels, sasl-authenticated) only when a live session exists: none before
\* the first transport is established, none after the transport is lost.
C15_StatusSessionIsLive ==
    (result.op = "get_network_status" /\ result.ok
        /\ result.status.has_session)
    => LiveSession(result.id)

\* the supervisor of network n has an established transport, a connect
\* attempt in progress or a retry pending
LiveConnection(n) ==
    /\ n \in DOMAIN factories
    /\ \/ sup[factories[n]].state \in {"connecting", "connected"}
       \/ sup[factories[n]].timer.pending

\* C16: the connected flag of get_network_status(id) is true exactly when the
\* network's supervisor has an established transport, a connect attempt or a
\* retry pending; after a transport loss with no retry permitted it is false.
C16_ConnectedFlagIsLive ==
    (result.op = "get_network_status" /\ result.ok)
    => (result.status.connected <=> LiveConnection(result.id))

\* C17: reload_network_config(id) changes only the manager's stored config
\* for id (to the store's row) and leaves the connector, the supervisor with
\* its retry state and session, and the connected-address entry unchanged; it
\* reports failure without any change when the id is absent from the store.
C17_ReloadLeavesConnectionAlone ==
    [][\A n \in NetIds :
          (result'.op = "reload_network_config" /\ result'.id = n)
          => /\ UNCHANGED <<db, factories, connectors, connected_addresses,
                            sup, channels>>
             /\ \A m \in NetIds \ {n} :
                   EntryOf(networks', m) = EntryOf(networks, m)
             /\ IF n \in DOMAIN db
                THEN result'.ok /\ EntryOf(networks', n) = <<db[n]>>
                ELSE ~result'.ok /\ networks' = networks]_vars

\* C17 witness: the config of a network with an established transport was
\* reloaded with a row the store had changed; the supervisor keeps the config
\* it was created with
C17_Witness ==
    /\ result.op = "reload_network_config" /\ result.ok
    /\ result.id \in DOMAIN connectors
    /\ sup[connectors[result.id]].state = "connected"
    /\ networks[result.id].rpl_welcome = "Welcome"
    /\ sup[connectors[result.id]].config # networks[result.id]

\* the position of the first line with command cmd in a session's output,
\* 0 when there is none
FirstSent(p, cmd) ==
    IF \E i \in 1..Len(p.sent) : p.sent[i].cmd = cmd
    THEN CHOOSE i \in 1..Len(p.sent) :
             /\ p.sent[i].cmd = cmd
             /\ \A j \in 1..(i - 1) : p.sent[j].cmd # cmd
    ELSE 0

\* the session has sent 'CAP REQ :sasl', and sent it before NICK and USER
CapabilityRequestedFirst(p) ==
    /\ FirstSent(p, "CAP REQ") > 0
    /\ p.sent[FirstSent(p, "CAP REQ")].arg = ":sasl"
    /\ FirstSent(p, "CAP REQ") < FirstSent(p, "NICK")
    /\ FirstSent(p, "CAP REQ") < FirstSent(p, "USER")

\* C18 as stated: on transport connect, whenever auth-mechanism is SASL the
\* session sends 'CAP REQ :sasl' before NICK/USER; when auth-mechanism is not
\* SASL no capability request is sent.
C18_SaslRequestsCapability ==
    \A s \in DOMAIN sup :
        sup[s].state = "connected"
        => /\ FirstSent(sup[s].protocol, "NICK") > 0
           /\ FirstSent(sup[s].protocol, "USER") > 0
           /\ IF sup[s].config.auth_mechanism = 1
              THEN CapabilityRequestedFirst(sup[s].protocol)
              ELSE FirstSent(sup[s].protocol, "CAP REQ") = 0

\* C18 as amended: on transport connect, whenever auth-mechanism is SASL and
\* sasl-mechanism is PLAIN or EXTERNAL the session sends 'CAP REQ :sasl'
\* before NICK/USER; otherwise no capability request is sent.
C18_SaslMechanismRequestsCapability ==
    \A s \in DOMAIN sup :
        sup[s].state = "connected"
        => /\ FirstSent(sup[s].protocol, "NICK") > 0
           /\ FirstSent(sup[s].protocol, "USER") > 0
           /\ IF /\ sup[s].config.auth_mechanism = 1
                 /\ sup[s].config.sasl_mechanism \in {1, 2}
              THEN CapabilityRequestedFirst(sup[s].protocol)
              ELSE FirstSent(sup[s].protocol, "CAP REQ") = 0

\* C18 witness: a session configured for SASL EXTERNAL has been connected
\* and its first line is the capability request
C18_Witness ==
    \E s \in DOMAIN sup :
        /\ sup[s].state = "connected"
        /\ sup[s].config.auth_mechanism = 1
        /\ sup[s].config.sasl_mechanism = 2
        /\ Len(sup[s].protocol.sent) >= 3
        /\ sup[s].protocol.sent[1] = Line("CAP REQ", ":sasl")

\* the session of supervisor s handles numeric num in this step
Handles(s, num) ==
    /\ sup[s].state = "connected"
    /\ sup'[s].protocol.received = Append(sup[s].protocol.received, num)

\* C19: on numeric 903 the session sets sasl_authenticated=true and sends
\* CAP END; on numeric 904 it sends CAP END, does not set sasl_authenticated,
\* and the session stays open; in every reachable state sasl_authenticated is
\* true only if a 903 was received earlier in the same session.
C19_SaslNumerics ==
    [][\A s \in DOMAIN sup :
          /\ Handles(s, "903")
             => /\ sup'[s].protocol.sasl_authenticated
                /\ sup'[s].protocol.sent =
                       Append(sup[s].protocol.sent, Line("CAP END", ""))
                /\ sup'[s].state = "connected"
          /\ Handles(s, "904")
             => /\ sup'[s].protocol.sasl_authenticated
                       = sup[s].protocol.sasl_authenticated
                /\ sup'[s].protocol.sent =
                       Append(sup[s].protocol.sent, Line("CAP END", ""))
                /\ sup'[s].state = "connected"
          /\ sup'[s].protocol.sasl_authenticated
             => Contains(sup'[s].protocol.received, "903")]_vars

\* C19 witness: an open session was refused (904), then accepted (903), and
\* has answered both with CAP END
C19_Witness ==
    \E s \in DOMAIN sup :
        /\ sup[s].state = "connected"
        /\ sup[s].protocol.received = <<"904", "903">>
        /\ sup[s].protocol.sasl_authenticated
        /\ Len(sup[s].protocol.sent) >= 4

\* the lines a session wrote in this step
NewlySent(s) ==
    SubSeq(sup'[s].protocol.sent, Len(sup[s].protocol.sent) + 1,
           Len(sup'[s].protocol.sent))

\* the lines that precede the JOINs at registration
IdentifyAndOper(c) ==
    (IF c.auth_mechanism = 2
     THEN <<Line("PRIVMSG", "NickServ :IDENTIFY")>> ELSE <<>>)
    \o (IF c.oper_auth THEN <<Line("OPER", "")>> ELSE <<>>)

\* C20: on successful registration the session sends, in this order, the
\* NickServ identify message (only if auth-mechanism is NickServAuth), the
\* OPER command (only if oper-auth is enabled), then one JOIN for every
\* configured channel flagged auto-join and none for any other channel.
C20_RegistrationOrder ==
    [][\A s \in DOMAIN sup :
          (sup[s].state = "connected" /\ ~sup[s].protocol.signedOn
              /\ sup'[s].protocol.signedOn)
          => LET head == IdentifyAndOper(sup[s].config)
                 rows == get_channels(sup[s].net)
                 new == NewlySent(s)
                 joins == SubSeq(new, Len(head) + 1, Len(new))
             IN /\ Len(new) >= Len(head)
                /\ SubSeq(new, 1, Len(head)) = head
                /\ \A i \in 1..Len(joins) : joins[i].cmd = "JOIN"
                /\ \A k \in 1..Len(rows) :
                      Cardinality({ i \in 1..Len(joins) :
                                      joins[i].arg = rows[k].name })
                         = IF rows[k].auto_join THEN 1 ELSE 0]_vars

\* C20 witness: a session with NickServ and oper authentication has
\* registered on a network with auto-join and other channels, and a JOIN it
\* sent was confirmed
C20_Witness ==
    \E s \in DOMAIN sup :
        /\ sup[s].protocol.signedOn
        /\ sup[s].config.auth_mechanism = 2
        /\ sup[s].config.oper_auth
        /\ \E k \in 1..Len(get_channels(sup[s].net)) :
              ~get_channels(sup[s].net)[k].auto_join
        /\ sup[s].protocol.joined_channels # <<>>

\* the candidate list of the session's network
Candidates == sup[1].config.nicknames

DupFree(list) ==
    \A i \in 1..Len(list), j \in 1..Len(list) : list[i] = list[j] => i = j

\* C21: on a collision for nickname n with a non-empty candidate list L, the
\* nickname requested next is L[0] when n is not in L and otherwise follows an
\* occurrence of n, the last element being followed by L[0]; with
\* L = [X, X_, X__], X gives X_, X__ gives X and an absent nickname gives X;
\* each collision is for the nickname the previous one produced, and with a
\* duplicate-free L any Len(L) collisions in a row produce Len(L) different
\* candidates, so every candidate is visited before one repeats
C21_NicknameCycle ==
    Candidates # <<>> =>
        /\ \A k \in 1..Len(trail) :
              LET n == trail[k][1]
                  next == trail[k][2]
              IN /\ ~Contains(Candidates, n) => next = Candidates[1]
                 /\ Contains(Candidates, n) =>
                        \E i \in 1..Len(Candidates) :
                            /\ Candidates[i] = n
                            /\ next = Candidates[IF i = Len(Candidates)
                                                 THEN 1 ELSE i + 1]
                 /\ DupFree(Candidates) /\ Contains(Candidates, n) =>
                        \A i \in 1..Len(Candidates) :
                            Candidates[i] = n =>
                                next = Candidates[IF i = Len(Candidates)
                                                  THEN 1 ELSE i + 1]
                 /\ k > 1 => n = trail[k - 1][2]
                 /\ Candidates = <<"X", "X_", "X__">> =>
                        /\ n = "X" => next = "X_"
                        /\ n = "X__" => next = "X"
                        /\ ~Contains(Candidates, n) => next = "X"
        /\ DupFree(Candidates) =>
              \A k \in 1..Len(trail), m \in 1..Len(trail) :
                  (k < m /\ m - k < Len(Candidates)) => trail[k][2] # trail[m][2]

\* a session that asked for a nickname outside [X, X_, X__] has collided four
\* times and is back at X
C21_Witness ==
    /\ Candidates = <<"X", "X_", "X__">>
    /\ Len(trail) >= 4
    /\ trail[1][1] = AbsentNickname
    /\ trail[4][2] = "X"

\* the rows of the session's network
Rows(s) == get_channels(sup[s].net)

AutoRejoin(s, name) ==
    \E i \in 1..Len(Rows(s)) : Rows(s)[i].name = name /\ Rows(s)[i].auto_rejoin

\* the step hands the membership event `kind' of channel `name' to session s
Handled(s, kind, name) ==
    /\ sup[s].state = "connected"
    /\ sup'[s].state = "connected"
    /\ sup'[s].protocol.events =
           Append(sup[s].protocol.events, MembershipEvent(kind, name))

\* C22: a kick from a channel the store flags auto-rejoin makes the session
\* send one JOIN for that channel and leaves the store's channel rows as they
\* are; a kick from a channel not flagged auto-rejoin sends nothing
C22_KickRejoins ==
    [][\A name \in MembershipChannels :
          Handled(1, "kicked", name) =>
              /\ AutoRejoin(1, name) =>
                     /\ NewlySent(1) = <<Line("JOIN", name)>>
                     /\ channels' = channels
              /\ ~AutoRejoin(1, name) => NewlySent(1) = <<>>]_vars

\* the last membership event of channel `name' in the session, if any
LastEvent(events, name) ==
    LET at == { i \in 1..Len(events) : events[i].channel = name }
    IN IF at = {} THEN "none"
       ELSE events[CHOOSE i \in at : \A j \in at : j <= i].kind

\* C23: on a live session a channel is in joined_channels exactly when the
\* last membership event for it was a join, and no channel is in it twice
C23_JoinedSetAuthoritative ==
    sup[1].state = "connected" =>
        /\ \A name \in MembershipChannels :
              Contains(sup[1].protocol.joined_channels, name)
                  <=> LastEvent(sup[1].protocol.events, name) = "joined"
        /\ DupFree(sup[1].protocol.joined_channels)

\* the step hands an inbound chat message, trail'[1], to session 1
Handling == trail = <<>> /\ trail' # <<>>

IsPm(m) == m.channel = sup[1].protocol.nickname

\* the channel's own prefix if it has one, else the network's
ResolvedPrefix(m) ==
    IF \E i \in 1..Len(Rows(1)) :
           Rows(1)[i].name = m.channel /\ Rows(1)[i].command_prefix # <<>>
    THEN LET i == CHOOSE i \in 1..Len(Rows(1)) :
                      Rows(1)[i].name = m.channel
                          /\ Rows(1)[i].command_prefix # <<>>
         IN Rows(1)[i].command_prefix
    ELSE sup[1].config.command_prefix

\* the message is one the session treats as a command
TreatedAsCommand(m) ==
    /\ SenderParses(m.user)
    /\ Strip(m.message) # <<>>
    /\ IsPm(m) \/ StartsWith(Strip(m.message), ResolvedPrefix(m))

\* the text parsed as the command line: all of a private message, a channel
\* message without its prefix
CommandLine(m) ==
    IF IsPm(m) THEN Strip(m.message)
    ELSE SubSeq(Strip(m.message), Len(ResolvedPrefix(m)) + 1,
                Len(Strip(m.message)))

\* the calls of the command registry made by the step
NewlyDispatched ==
    SubSeq(sup'[1].protocol.dispatched, Len(sup[1].protocol.dispatched) + 1,
           Len(sup'[1].protocol.dispatched))

Invoker(m) == CharsValue(Before(m.user, "!"))

Ping == <<"p", "i", "n", "g">>

\* C24: the registry is called only for a private message or a channel
\* message that starts with the resolved prefix; such a message whose command
\* line (the whole private message, the channel message without the prefix)
\* has at least one token calls it once, with the first token as command and
\* the rest as arguments; a channel message that does not start with the
\* resolved prefix causes no call and no reply; channel message '!ping' with
\* prefix '!' and private message 'ping' both dispatch 'ping'
C24_DispatchRouting ==
    [][Handling =>
          LET m == trail'[1]
              split == shlex_split(CommandLine(m))
          IN /\ NewlyDispatched # <<>> => TreatedAsCommand(m)
             /\ (TreatedAsCommand(m) /\ split.error = "none"
                    /\ split.tokens # <<>>) =>
                    /\ Len(NewlyDispatched) = 1
                    /\ NewlyDispatched[1].command = split.tokens[1]
                    /\ NewlyDispatched[1].args = Tail(split.tokens)
             /\ (~IsPm(m) /\ ~StartsWith(Strip(m.message), ResolvedPrefix(m))) =>
                    /\ NewlyDispatched = <<>>
                    /\ NewlySent(1) = <<>>
             /\ (SenderParses(m.user)
                    /\ \/ IsPm(m) /\ m.message = Ping
                       \/ ~IsPm(m) /\ ResolvedPrefix(m) = <<"!">>
                             /\ m.message = <<"!">> \o Ping) =>
                    /\ Len(NewlyDispatched) = 1
                    /\ NewlyDispatched[1].command = Ping
                    /\ NewlyDispatched[1].args = <<>>]_vars

\* a private message 'ping' has been dispatched while the network's prefix
\* is '!'
C24_Witness ==
    /\ trail # <<>>
    /\ trail[1].channel = sup[1].protocol.nickname
    /\ trail[1].message = Ping
    /\ sup[1].config.command_prefix = <<"!">>
    /\ Len(sup[1].protocol.dispatched) = 1
    /\ sup[1].protocol.dispatched[1].command = Ping

\* the step dispatched a command name the registry has no handler for
NoMatch ==
    /\ Handling
    /\ NewlyDispatched # <<>>
    /\ ~execute_command(NewlyDispatched[1].command)

NotFoundReply(target, m) ==
    [cmd |-> "PRIVMSG", target |-> target, prefix_nick |-> Invoker(m),
     text |-> "Command not found"]

\* C25 as claimed: when the registry reports no match the session replies
\* "Command not found" in a private message to the invoker's nickname, also
\* when the command was sent in a channel
C25_NotFoundRepliedPrivately ==
    [][NoMatch =>
          NewlySent(1) = <<NotFoundReply(Invoker(trail'[1]), trail'[1])>>]_vars

\* C25 amended: when the registry reports no match the session sends one
\* reply "Command not found" prefixed with the invoker's nickname, to the
\* channel when the command was sent in a channel and to the invoker's
\* nickname when it was sent in a private message
C25_NotFoundRepliedToTarget ==
    [][NoMatch =>
          NewlySent(1) =
              <<NotFoundReply(IF IsPm(trail'[1]) THEN Invoker(trail'[1])
                              ELSE StrValue(trail'[1].channel),
                              trail'[1])>>]_vars

\* a channel message with an unregistered command has been answered in the
\* channel
C25_Witness ==
    /\ trail # <<>>
    /\ trail[1].channel = ChannelPool[2]
    /\ trail[1].message = <<"!", "n", "o">>
    /\ Len(sup[1].protocol.dispatched) = 1
    /\ Contains(sup[1].protocol.sent,
                NotFoundReply(StrValue(ChannelPool[2]), trail[1]))

\* shell quoting, read from position i: `inside' is the quote character of
\* the section the position is in, "" outside of one; an escaped character
\* opens and closes nothing.  TRUE when the text ends inside a section.
RECURSIVE EndsInsideQuotes(_, _, _)
EndsInsideQuotes(text, i, inside) ==
    IF i > Len(text) THEN inside # ""
    ELSE IF text[i] = "\\" /\ inside # "'"
    THEN EndsInsideQuotes(text, i + 2, inside)
    ELSE IF text[i] \in {"\"", "'"} /\ inside = ""
    THEN EndsInsideQuotes(text, i + 1, text[i])
    ELSE IF text[i] = inside
    THEN EndsInsideQuotes(text, i + 1, "")
    ELSE EndsInsideQuotes(text, i + 1, inside)

UnmatchedQuote(text) == EndsInsideQuotes(text, 1, "")

\* C26: for every command line with an unmatched quote the session sends the
\* reply "Missing closing quotation mark", calls the command registry zero
\* times and changes nothing else of the session
C26_UnmatchedQuoteReplied ==
    [][(Handling /\ TreatedAsCommand(trail'[1])
           /\ UnmatchedQuote(CommandLine(trail'[1]))) =>
          /\ Len(NewlySent(1)) = 1
          /\ NewlySent(1)[1].text = "Missing closing quotation mark"
          /\ NewlyDispatched = <<>>
          /\ sup' = [sup EXCEPT ![1].protocol.sent = sup'[1].protocol.sent]]_vars

\* C27: a message whose sender does not have exactly one '!' followed by a
\* user part with exactly one '@' is dropped: the step that handles it
\* dispatches nothing, sends nothing and leaves the session as it was
C27_MalformedSenderDropped ==
    [][(Handling /\ ~( /\ Count(trail'[1].user, "!") = 1
                       /\ Count(After(trail'[1].user, "!"), "@") = 1 )) =>
          sup' = sup]_vars

\* a private message 'ping' from a sender with '!' and no '@' has been
\* handled without a call or a reply
C27_Witness ==
    /\ trail # <<>>
    /\ trail[1].user = <<"n", "!", "n">>
    /\ trail[1].channel = sup[1].protocol.nickname
    /\ trail[1].message = Ping
    /\ sup[1].protocol.dispatched = <<>>

\* the tasks of the supervisor's current session object
SessionTasks == sup[1].protocol.scheduler.tasks

\* the tasks of the sessions the supervisor had before the current one
Orphans == sup[1].orphans

Halted(task) == task.state # "RUNNING" /\ ~Armed(task)

\* C28: once a session's transport has closed, none of its tasks is RUNNING
\* or has an armed timer, and the run count of none of them grows again,
\* neither while the supervisor waits and reconnects nor after it has built
\* the next session
C28_TeardownStopsTasks ==
    /\ [](\A k \in 1..Len(Orphans) : Halted(Orphans[k]))
    /\ [](sup[1].state # "connected" =>
             \A id \in DOMAIN SessionTasks : Halted(SessionTasks[id]))
    /\ [][/\ \A k \in 1..Len(Orphans) :
                Orphans'[k].run_count = Orphans[k].run_count
          /\ (sup[1].state # "connected" /\ sup'[1].state # "connected") =>
                \A id \in DOMAIN SessionTasks :
                    SessionTasks'[id].run_count = SessionTasks[id].run_count]_vars

\* a periodic task that had fired was stopped by the loss of its session,
\* and the supervisor has a new session
C28_Witness ==
    /\ sup[1].state = "connected"
    /\ Len(Orphans) >= 1
    /\ Orphans[1].periodic
    /\ Orphans[1].run_count >= 1
    /\ Orphans[1].state = "STOPPED"
    /\ Orphans[1].halted = "teardown"

\* the number of fires after which an undisturbed task has come to its end:
\* the max_runs of its schedule command, 1 for a one-shot task
RunsAsked(task) == IF task.periodic THEN task.asked ELSE 1

\* a task no stop, pause, modify or teardown has acted on, scheduled as a
\* one-shot task or with max_runs >= 1
Undisturbed(task) == task.halted = "" /\ RunsAsked(task) >= 1

AsAsked(task) ==
    Undisturbed(task) =>
        /\ task.run_count <= RunsAsked(task)
        /\ task.state = "COMPLETED" <=> task.run_count = RunsAsked(task)
        /\ task.state = "COMPLETED" => ~Armed(task)

\* C29: a started periodic task scheduled with max_runs = N >= 1 that is not
\* stopped, paused, removed or modified never has more than N fires, is
\* COMPLETED exactly when it has had N, has no timer and no further fire once
\* COMPLETED, and does become COMPLETED; a one-shot task likewise with N = 1
C29_RunsExactlyMaxRuns ==
    /\ [](\A id \in DOMAIN SessionTasks : AsAsked(SessionTasks[id]))
    /\ [](\A k \in 1..Len(Orphans) : AsAsked(Orphans[k]))
    /\ [][\A id \in DOMAIN SessionTasks \cap DOMAIN SessionTasks' :
             (SessionTasks[id].state = "COMPLETED"
                 /\ SessionTasks'[id].state = "COMPLETED") =>
                 SessionTasks'[id].run_count = SessionTasks[id].run_count]_vars
    /\ \A id \in 1..MaxTasks :
           (/\ id \in DOMAIN SessionTasks
            /\ Undisturbed(SessionTasks[id])
            /\ SessionTasks[id].state = "RUNNING")
               ~> (\/ id \notin DOMAIN SessionTasks
                   \/ ~Undisturbed(SessionTasks[id])
                   \/ /\ SessionTasks[id].state = "COMPLETED"
                      /\ SessionTasks[id].run_count = RunsAsked(SessionTasks[id]))

\* an undisturbed periodic task scheduled with max_runs = 3 is COMPLETED
\* after three fires
C29_Witness ==
    /\ 1 \in DOMAIN SessionTasks
    /\ SessionTasks[1].periodic
    /\ SessionTasks[1].asked = 3
    /\ SessionTasks[1].halted = ""
    /\ SessionTasks[1].run_count = 3
    /\ SessionTasks[1].state = "COMPLETED"

WithinMaxRuns(task) == task.max_runs # 0 => task.run_count <= task.max_runs

\* C30: in every reachable state every task with max_runs set has
\* run_count <= max_runs
C30_RunCountWithinMaxRuns ==
    /\ \A id \in DOMAIN SessionTasks : WithinMaxRuns(SessionTasks[id])
    /\ \A k \in 1..Len(Orphans) : WithinMaxRuns(Orphans[k])

\* the scheduler of the supervisor's current session object
Scheduler == sup[1].protocol.scheduler

C32_PauseAndResume ==
    /\ [](\A id \in DOMAIN SessionTasks :
             /\ ~(SessionTasks[id].periodic /\ SessionTasks[id].state = "RUNNING")
                    => pause_task(Scheduler, id) = Scheduler
             /\ ~(SessionTasks[id].periodic /\ SessionTasks[id].state = "PAUSED")
                    => resume_task(Scheduler, id) = Scheduler
             /\ SessionTasks[id].state = "PAUSED" => ~Armed(SessionTasks[id]))
    /\ [][\A id \in 1..MaxTasks :
             /\ PauseTask(1, id) =>
                    /\ SessionTasks[id].periodic
                    /\ SessionTasks[id].state = "RUNNING"
                    /\ SessionTasks'[id].state = "PAUSED"
                    /\ SessionTasks'[id].run_count = SessionTasks[id].run_count
             /\ ResumeTask(1, id) =>
                    /\ SessionTasks[id].periodic
                    /\ SessionTasks[id].state = "PAUSED"
                    /\ SessionTasks'[id].state = "RUNNING"
                    /\ SessionTasks'[id].run_count = SessionTasks[id].run_count
             /\ (/\ id \in DOMAIN SessionTasks \cap DOMAIN SessionTasks'
                 /\ SessionTasks[id].state = "PAUSED") =>
                    SessionTasks'[id].run_count = SessionTasks[id].run_count]_vars

\* a periodic task was paused after a fire, next to a one-shot task that is
\* RUNNING
C32_Witness ==
    /\ DOMAIN SessionTasks = {1, 2}
    /\ SessionTasks[1].periodic
    /\ SessionTasks[1].run_count >= 1
    /\ SessionTasks[1].state = "PAUSED"
    /\ ~SessionTasks[2].periodic
    /\ SessionTasks[2].state = "RUNNING"

\* at most one timer, and none unless the task is RUNNING
OneTimer(task) == task.timers <= 1 /\ (Armed(task) => task.state = "RUNNING")

Active(s) ==
    sup[s].state \in {"connecting", "connected"} \/ sup[s].timer.pending

\* C35: in every reachable state at most one supervisor of a network is
\* active
C35_OneActiveSupervisor ==
    \A s, t \in DOMAIN sup :
        (sup[s].net = sup[t].net /\ Active(s) /\ Active(t)) => s = t

\* the live session of the supervisor
Session == sup[1].protocol

\* a line of the session the server has to answer
Demanding(line) == line.cmd \in {"CAP REQ", "AUTHENTICATE"}

Demands(p) == SelectSeq(p.sent, Demanding)

\* the lines with which a server answers a line of the session: ACK or NAK
\* to the request, the continuation (or the failure numeric) to the
\* mechanism, a SASL numeric to the credentials
Answers(line) ==
    IF line.cmd = "CAP REQ" THEN {"CAP ACK sasl", "CAP NAK sasl"}
    ELSE IF line.arg \in {"PLAIN", "EXTERNAL"} THEN {"AUTHENTICATE +", "904"}
    ELSE {"903", "904"}

\* the server has sent nothing but answers, each to the line it answers
ServerAnswered(p) ==
    /\ Len(p.received) <= Len(Demands(p))
    /\ \A i \in 1..Len(p.received) : p.received[i] \in Answers(Demands(p)[i])

\* nothing is owed: every line of the session that asks for an answer has
\* been answered and the answer handled
AtRest(p) == Len(p.received) = Len(Demands(p))

\* C36: when a session that sent CAP REQ :sasl has had an answer to each of
\* its lines and its transport is up, it has sent CAP END
C36_NegotiationEnds ==
    (/\ sup[1].state = "connected"
     /\ Contains(Session.sent, Line("CAP REQ", ":sasl"))
     /\ ServerAnswered(Session)
     /\ AtRest(Session))
        => Contains(Session.sent, Line("CAP END", ""))

\* the session has requested sasl and has had neither ACK nor NAK for it
AwaitsCapAnswer(p, c) ==
    /\ c.auth_mechanism = 1
    /\ Contains(p.sent, Line("CAP REQ", ":sasl"))
    /\ ~Contains(p.received, "CAP ACK sasl")
    /\ ~Contains(p.received, "CAP NAK sasl")

\* the session has named PLAIN after the ACK of its request and that is the
\* last line it has sent
AwaitsContinuation(p, c) ==
    /\ c.auth_mechanism = 1
    /\ c.sasl_mechanism = 1
    /\ Contains(p.sent, Line("CAP REQ", ":sasl"))
    /\ Contains(p.received, "CAP ACK sasl")
    /\ p.sent # <<>>
    /\ p.sent[Len(p.sent)] = Line("AUTHENTICATE", "PLAIN")

\* C37: the session sends the PLAIN credentials only when SASL PLAIN is
\* configured and it has sent CAP REQ :sasl, had the ACK and sent
\* AUTHENTICATE PLAIN; it names a mechanism only in answer to the ACK of its
\* own request; a line of the server arriving in any other state makes it
\* send no AUTHENTICATE line
C37_CredentialsOnlyInExchange ==
    [][\A i \in 1..Len(NewlySent(1)) :
          NewlySent(1)[i].cmd = "AUTHENTICATE" =>
              IF NewlySent(1)[i].arg = PlainCredentials
              THEN AwaitsContinuation(Session, sup[1].config)
              ELSE AwaitsCapAnswer(Session, sup[1].config)]_vars

\* C38: in every reachable state the supervisor table, the connector table
\* and the connected-address table of the manager have the same keys
C38_RegistriesAgree ==
    /\ DOMAIN factories = DOMAIN connectors
    /\ DOMAIN connectors = DOMAIN connected_addresses

\* the row of channel id `channel_id' in the session's network, if any
Known(channel_id) ==
    \E i \in 1..Len(Rows(1)) : Rows(1)[i].id = channel_id

NameOf(channel_id) ==
    Rows(1)[CHOOSE i \in 1..Len(Rows(1)) : Rows(1)[i].id = channel_id].name

\* the channel of the session's last `channel cycle' command
LastCycled ==
    NameOf(Session.dispatched[Len(Session.dispatched)].args[2])

\* the session was in the channel when the last cycle command was given:
\* its PART is the command's first membership line
LastCycleParted ==
    /\ Session.dispatched # <<>>
    /\ Known(Session.dispatched[Len(Session.dispatched)].args[2])
    /\ \E k \in 1..(Len(Session.sent) - 1) :
          /\ Session.sent[k].cmd = "PRIVMSG"
          /\ \A j \in (k + 1)..Len(Session.sent) :
                 Session.sent[j].cmd # "PRIVMSG"
          /\ Session.sent[k + 1] = Line("PART", LastCycled)

\* C40: `channel cycle' on a channel the session is in sends a PART for the
\* channel followed by a JOIN for the same channel, and once the server has
\* answered both the session is in the channel again
C40_CycleRejoins ==
    /\ [][\A channel_id \in 1..MaxChannels :
             (/\ Cycle(1, channel_id)
              /\ Known(channel_id)
              /\ Contains(Session.joined_channels, NameOf(channel_id)))
                 => SubSeq(NewlySent(1), 2, Len(NewlySent(1))) =
                        <<Line("PART", NameOf(channel_id)),
                          Line("JOIN", NameOf(channel_id))>>]_vars
    /\ [](sup[1].state = "connected" /\ LastCycleParted /\ Answered(Session)
             => Contains(Session.joined_channels, LastCycled))

====
